---- MODULE Spec2Model ----
(***************************************************************************)
(* A model of sg_jira/handlers/entity_issue_handler.py: EntityIssueHandler, *)
(* the base class of the handlers syncing a Shotgun Entity to a Jira Issue. *)
(*                                                                          *)
(* The handler keeps no state of its own besides its configuration.  The    *)
(* state of the model is the call in progress (pc, args, ret) and the two   *)
(* remote systems the handler reads and writes (jira, shotgun).  Each       *)
(* method of the handler is an operator computed as the Python code         *)
(* computes it, over Python values encoded as tagged records; an action     *)
(* applies one method to the inputs drawn by the Init of its specification. *)
(***************************************************************************)
EXTENDS Integers, Sequences, FiniteSets, TLC

VARIABLES pc, args, ret, jira, shotgun, locals

vars == <<pc, args, ret, jira, shotgun, locals>>

----------------------------------------------------------------------------
(* Python values.  k is the Python type of the value.                       *)

PyNone == [k |-> "none"]
PyStr(s) == [k |-> "str", s |-> s]
PyInt(n) == [k |-> "int", n |-> n]
PyBool(b) == [k |-> "bool", b |-> b]
PyDict(d) == [k |-> "dict", d |-> d]
PyList(l) == [k |-> "list", l |-> l]

\* A jira.resources.Resource instance, with its raw value.
Resource(raw) == [k |-> "resource", raw |-> raw]

\* A key that a dictionary literal of the model leaves out.
Absent == [k |-> "absent"]

EmptyDict == [x \in {} |-> PyNone]

\* The dictionary with the keys of f whose value is not Absent.
MkDict(f) == PyDict([x \in {y \in DOMAIN f : f[y] # Absent} |-> f[x]])

\* Python's truth value: `if v:` / `if not v:`.
Truthy(v) ==
    CASE v.k = "none" -> FALSE
      [] v.k = "str" -> v.s # ""
      [] v.k = "int" -> v.n # 0
      [] v.k = "bool" -> v.b
      [] v.k = "dict" -> DOMAIN v.d # {}
      [] v.k = "list" -> Len(v.l) > 0
      [] v.k = "resource" -> TRUE

\* dict.get(key): None when the key is missing.
Get(v, key) == IF key \in DOMAIN v.d THEN v.d[key] ELSE PyNone

\* `key in dict`
HasKey(v, key) == key \in DOMAIN v.d

\* The outcome of a call: a returned value or a raised exception.
Return(v) == [k |-> "return", v |-> v]
Raise(exc) == [k |-> "raise", exc |-> exc]

\* The strings of the model which str.lower() leaves as they are.
LowercaseStrings ==
    {"", "issue", "project", "high", "low", "urgent", "\n", "al@x.io", "zed@x.io",
     "done", "bogus", "in progress", "42", "abc"}

\* str.lower() on the strings of the model.
Lower(s) ==
    CASE s \in LowercaseStrings -> s
      [] s = "Issue" -> "issue"
      [] s = "ISSUE" -> "issue"
      [] s = "High" -> "high"
      [] s = "HIGH" -> "high"
      [] s = "Low" -> "low"
      [] s = "Al" -> "al"
      [] s = "Bo" -> "bo"
      [] s = "Fix\nit" -> "fix\nit"
      [] s = "Urgent" -> "urgent"
      [] s = "Done" -> "done"
      [] s = "Bogus" -> "bogus"
      [] s = "In Progress" -> "in progress"

----------------------------------------------------------------------------
(* Configuration of the handler and of the Jira session.                    *)

\* self._issue_type
issue_type_cfg == "Task"

\* self.jira.jira_shotgun_id_field, self.jira.jira_shotgun_type_field,
\* self.jira.jira_shotgun_url_field: the ids of the Jira custom fields
\* holding the cross-reference.
jira_shotgun_id_field == "customfield_sg_id"
jira_shotgun_type_field == "customfield_sg_type"
jira_shotgun_url_field == "customfield_sg_url"

----------------------------------------------------------------------------
(* accept_jira_event                                                        *)

WebhookEvents == <<"jira:issue_updated", "jira:issue_created">>

\* `webhook_event not in ["jira:issue_updated", "jira:issue_created"]`
webhook_unsupported(webhook_event) ==
    \/ ~Truthy(webhook_event)
    \/ \A i \in 1..2 : webhook_event # PyStr(WebhookEvents[i])

changelog_missing_mut(event) == FALSE

\* `changelog = event.get("changelog"); if not changelog`
changelog_missing(event) == ~Truthy(Get(event, "changelog"))

\* `if not shotgun_id or not shotgun_type`
not_linked(fields) ==
    \/ ~Truthy(Get(fields, jira_shotgun_id_field))
    \/ ~Truthy(Get(fields, jira_shotgun_type_field))

\* The checks made on the issue fields, once the event itself was checked.
accept_issue_fields(jira_issue) ==
    LET fields == Get(jira_issue, "fields") IN
    IF ~Truthy(fields) THEN Return(PyBool(FALSE))
    ELSE LET issue_type == Get(fields, "issuetype") IN
         IF ~Truthy(issue_type) THEN Return(PyBool(FALSE))
         ELSE IF ~HasKey(issue_type, "name") THEN Raise("KeyError")
         ELSE IF issue_type.d["name"] # PyStr(issue_type_cfg)
              THEN Return(PyBool(FALSE))
         ELSE IF not_linked(fields) THEN Return(PyBool(FALSE))
         ELSE Return(PyBool(TRUE))

accept_jira_event(resource_type, resource_id, event) ==
    IF Lower(resource_type) # "issue" THEN Return(PyBool(FALSE))
    ELSE LET jira_issue == Get(event, "issue") IN
         IF ~Truthy(jira_issue) THEN Return(PyBool(FALSE))
         ELSE IF webhook_unsupported(Get(event, "webhookEvent"))
              THEN Return(PyBool(FALSE))
         ELSE IF changelog_missing(event) THEN Return(PyBool(FALSE))
         ELSE accept_issue_fields(jira_issue)

\* The inputs of accept_jira_event.
AcceptIssueTypes ==
    {Absent, PyNone, PyDict(EmptyDict),
     MkDict([id |-> PyStr("10001")]),
     MkDict([id |-> PyStr("10001"), name |-> PyStr("Task")]),
     MkDict([id |-> PyStr("10002"), name |-> PyStr("Story")])}

AcceptFields ==
    {Absent, PyNone, PyDict(EmptyDict)} \cup
    {MkDict([f \in {"issuetype", jira_shotgun_id_field, jira_shotgun_type_field} |->
                CASE f = "issuetype" -> it
                  [] f = jira_shotgun_id_field -> id
                  [] f = jira_shotgun_type_field -> ty]) :
        it \in AcceptIssueTypes,
        id \in {Absent, PyStr(""), PyStr("12")},
        ty \in {Absent, PyStr(""), PyStr("Task")}}

AcceptIssues ==
    {Absent, PyNone, PyDict(EmptyDict)} \cup
    {MkDict([fields |-> f, key |-> PyStr("KEY-1")]) : f \in AcceptFields}

AcceptChangelogs ==
    {Absent, PyDict(EmptyDict), MkDict([items |-> PyList(<<>>)])}

AcceptEvents ==
    {MkDict([issue |-> i, webhookEvent |-> w, changelog |-> c]) :
        i \in AcceptIssues,
        w \in {Absent, PyStr(""), PyStr("jira:issue_updated"),
               PyStr("jira:issue_created"), PyStr("jira:issue_deleted")},
        c \in AcceptChangelogs}

AcceptInit ==
    /\ pc = "accept"
    /\ args \in [resource_type : {"issue", "Issue", "ISSUE", "project"},
                 resource_id : {"KEY-1"},
                 event : AcceptEvents]
    /\ ret = PyNone
    /\ jira = PyNone
    /\ shotgun = PyNone
    /\ locals = PyNone

AcceptJiraEvent ==
    /\ pc = "accept"
    /\ ret' = accept_jira_event(args.resource_type, args.resource_id, args.event)
    /\ pc' = "done"
    /\ UNCHANGED <<args, jira, shotgun, locals>>

AcceptNext == AcceptJiraEvent

SpecAccept == AcceptInit /\ [][AcceptNext]_vars

----------------------------------------------------------------------------
(* Claims about accept_jira_event.                                          *)

\* The value under the path of keys in nested dictionaries, None when a key
\* is missing or a value on the way is not a dictionary.
RECURSIVE Dig(_, _)
Dig(v, path) ==
    IF path = <<>> THEN v
    ELSE IF v.k = "dict" /\ Head(path) \in DOMAIN v.d
         THEN Dig(v.d[Head(path)], Tail(path))
         ELSE PyNone

NonEmpty(v) == v # PyNone /\ v # PyStr("") /\ v # PyDict(EmptyDict) /\ v # PyList(<<>>)

AcceptConditions ==
    /\ args.resource_type \in {"issue", "Issue", "ISSUE"}
    /\ NonEmpty(Dig(args.event, <<"issue">>))
    /\ Dig(args.event, <<"webhookEvent">>) \in
            {PyStr("jira:issue_created"), PyStr("jira:issue_updated")}
    /\ NonEmpty(Dig(args.event, <<"changelog">>))
    /\ Dig(args.event, <<"issue", "fields", "issuetype", "name">>) = PyStr(issue_type_cfg)
    /\ NonEmpty(Dig(args.event, <<"issue", "fields", jira_shotgun_id_field>>))
    /\ NonEmpty(Dig(args.event, <<"issue", "fields", jira_shotgun_type_field>>))

\* C1: accept_jira_event returns True if and only if the resource type is
\* "issue" whatever its case, the event has a non-empty issue, a created or
\* updated webhook event, a non-empty changelog, an issue type named as the
\* handler's issue type and non-empty Shotgun id and type fields; an event
\* without a changelog is never accepted.
C1_AcceptIff ==
    pc = "done" =>
        /\ (ret = Return(PyBool(TRUE))) <=> AcceptConditions
        /\ ~NonEmpty(Dig(args.event, <<"changelog">>)) => ret = Return(PyBool(FALSE))

C1_Witness ==
    /\ pc = "done"
    /\ ret = Return(PyBool(TRUE))
    /\ args.resource_type = "ISSUE"

\* C2: accept_jira_event never raises: every malformed input, such as an
\* issue type without a name, makes it return False.
C2_AcceptNeverRaises ==
    pc = "done" => ret.k = "return"

----------------------------------------------------------------------------
(* create_jira_issue_for_entity                                             *)

\* The field ids the model knows: the eight keys of the data payload, a
\* property the caller may pass and a field only the meta data can hold.
BuiltinFields ==
    {"project", "summary", "description", jira_shotgun_id_field,
     jira_shotgun_type_field, jira_shotgun_url_field, "issuetype", "reporter"}

CreateFields == BuiltinFields \cup {"priority", "components"}

\* `summary.replace("\n", "").replace("\r", "")` on the strings of the model.
StripNewlines(s) ==
    CASE s \in {"", "high", "HIGH", "High", "Low", "urgent", "al@x.io", "zed@x.io"} -> s
      [] s = "\n" -> ""
      [] s = "Fix\nit" -> "Fixit"

\* `"%d" % sg_entity["id"]` on the ids of the model.
FormatD(n) ==
    CASE n = 0 -> "0"
      [] n = 7 -> "7"
      [] n = 42 -> "42"
      [] n = 90 -> "90"

\* self.shotgun.consolidate_entity(entity): the record of the Entity with
\* its name (and email address for a user), None when Shotgun has no such
\* Entity.
consolidate_entity(entity) ==
    IF <<entity.d["type"].s, entity.d["id"].n>> \in DOMAIN shotgun.entities
    THEN PyDict(shotgun.entities[<<entity.d["type"].s, entity.d["id"].n>>])
    ELSE PyNone

\* self.jira.find_jira_user(email, ...): the Jira user with this email
\* address, None when there is none.
find_jira_user(user_email) ==
    IF user_email.k = "str" /\ user_email.s \in DOMAIN jira.users
    THEN Resource(MkDict([name |-> PyStr(jira.users[user_email.s]),
                          emailAddress |-> user_email]))
    ELSE PyNone

\* self.shotgun.get_entity_page_url(sg_entity)
get_entity_page_url(sg_entity) == PyStr("https://sg/detail")

\* The user the bridge runs as, whoever created the Entity.
reporter_for_mut(sg_entity) == PyStr(jira.current_user)

\* The reporter: the Jira user of the Entity's creator, else the user the
\* bridge runs as.
reporter_for(sg_entity) ==
    LET created_by == sg_entity.created_by IN
    IF created_by.d["type"] = PyStr("HumanUser")
    THEN LET user == consolidate_entity(created_by) IN
         IF Truthy(user)
         THEN LET jira_user == find_jira_user(user.d["email"]) IN
              IF Truthy(jira_user) THEN jira_user.raw.d["name"]
              ELSE PyStr(jira.current_user)
         ELSE PyStr(jira.current_user)
    ELSE PyStr(jira.current_user)

\* data.update(properties)
DictUpdate(data, properties) ==
    [f \in DOMAIN data \cup DOMAIN properties |->
        IF f \in DOMAIN properties THEN properties[f] ELSE data[f]]

\* The data payload, before it is validated.
create_data(sg_entity, jira_project, jira_issue_type, summary, description, properties) ==
    DictUpdate(
        [f \in BuiltinFields |->
            CASE f = "project" -> jira_project.raw
              [] f = "summary" -> PyStr(StripNewlines(summary))
              [] f = "description" -> IF description = PyNone THEN PyStr("") ELSE description
              [] f = jira_shotgun_id_field -> PyStr(FormatD(sg_entity.id))
              [] f = jira_shotgun_type_field -> PyStr(sg_entity.type)
              [] f = jira_shotgun_url_field -> get_entity_page_url(sg_entity)
              [] f = "issuetype" -> jira_issue_type.raw
              [] f = "reporter" -> MkDict([name |-> reporter_for(sg_entity)])],
        properties)

missing_fields_mut(data, fields_createmeta) == {}

\* The names of the required fields without a default value which the data
\* does not hold.
missing_fields(data, fields_createmeta) ==
    {fields_createmeta[f].name : f \in
        {g \in DOMAIN fields_createmeta :
            /\ g \notin DOMAIN data
            /\ fields_createmeta[g].required
            /\ ~fields_createmeta[g].hasDefaultValue}}

\* The fields of the data which are required, empty and have no default value.
invalid_fields(data, fields_createmeta) ==
    {f \in DOMAIN data :
        /\ f \in DOMAIN fields_createmeta
        /\ ~Truthy(data[f])
        /\ fields_createmeta[f].required
        /\ ~fields_createmeta[f].hasDefaultValue}

surviving_fields_mut(data, fields_createmeta) ==
    {f \in DOMAIN data :
        ~(/\ f \in DOMAIN fields_createmeta
          /\ ~Truthy(data[f])
          /\ fields_createmeta[f].required
          /\ fields_createmeta[f].hasDefaultValue)}

\* The keys left in the data by the loop deleting what can't be set in Jira
\* and the empty required fields Jira has a default value for.
surviving_fields(data, fields_createmeta) ==
    {f \in DOMAIN data :
        /\ f \in DOMAIN fields_createmeta
        /\ ~(/\ ~Truthy(data[f])
             /\ fields_createmeta[f].required
             /\ fields_createmeta[f].hasDefaultValue)}

\* The outcome of the call and the fields given to self.jira.create_issue,
\* if it was called.
create_jira_issue_for_entity(sg_entity, jira_project, issue_type, summary, description, properties) ==
    LET jira_issue_type == jira.issue_types[issue_type]
        create_meta_data == jira.createmeta
    IN
    IF \/ Len(create_meta_data.projects) = 0
       \/ Len(create_meta_data.projects[1].issuetypes) = 0
    THEN [ret |-> Raise("RuntimeError"), created |-> <<>>]
    ELSE
    LET fields_createmeta == create_meta_data.projects[1].issuetypes[1].fields
        data == create_data(sg_entity, jira_project, jira_issue_type, summary,
                            description, properties)
        kept == surviving_fields(data, fields_createmeta)
    IN
    IF missing_fields(data, fields_createmeta) # {}
    THEN [ret |-> Raise("ValueError"), created |-> <<>>]
    ELSE IF invalid_fields(data, fields_createmeta) # {}
    THEN [ret |-> Raise("ValueError"), created |-> <<>>]
    ELSE [ret |-> Return(PyDict([f \in kept |-> data[f]])),
          created |-> <<[f \in kept |-> data[f]]>>]

\* The inputs of create_jira_issue_for_entity.

\* What the creation meta data says of a field.
MetaField(f, required, hasDefaultValue) ==
    [name |-> f, required |-> required, hasDefaultValue |-> hasDefaultValue]

\* What the meta data may say of a field: nothing, or its two flags.
MetaOptions ==
    {Absent} \cup [required : BOOLEAN, hasDefaultValue : BOOLEAN]

MetaOf(f, o) ==
    IF o = Absent THEN Absent ELSE MetaField(f, o.required, o.hasDefaultValue)

\* The creation meta data of a Jira project set up for the bridge.
StandardMeta ==
    [f \in CreateFields |->
        CASE f \in {"project", "summary", "issuetype"} -> MetaField(f, TRUE, FALSE)
          [] f = "reporter" -> MetaField(f, TRUE, TRUE)
          [] f = "components" -> Absent
          [] OTHER -> MetaField(f, FALSE, FALSE)]

\* The number of fields for which the meta data may differ from StandardMeta.
MaxMetaDeviations == 2

CreateMetaFields ==
    {[f \in {g \in CreateFields : m[g] # Absent} |-> m[f]] :
        m \in UNION {
            {[f \in CreateFields |-> IF f \in S THEN MetaOf(f, c[f]) ELSE StandardMeta[f]] :
                c \in [S -> MetaOptions]} :
            S \in {T \in SUBSET CreateFields : Cardinality(T) <= MaxMetaDeviations}}}

CreateMetaData ==
    {[projects |-> <<>>], [projects |-> <<[issuetypes |-> <<>>]>>]} \cup
    {[projects |-> <<[issuetypes |-> <<[fields |-> m]>>]>>] : m \in CreateMetaFields}

SgUserAl == [type |-> PyStr("HumanUser"), id |-> PyInt(1), name |-> PyStr("Al"),
             email |-> PyStr("al@x.io")]

\* The Entity with who created it, the users Shotgun holds and those Jira
\* holds.
CreateScenarios ==
    {[sg_entity |-> [type |-> "Task", id |-> 7,
                     created_by |-> MkDict([type |-> PyStr("ApiUser"), id |-> PyInt(9)])],
      entities |-> (<<"HumanUser", 1>> :> SgUserAl), users |-> ("al@x.io" :> "al")],
     [sg_entity |-> [type |-> "Asset", id |-> 42,
                     created_by |-> MkDict([type |-> PyStr("HumanUser"), id |-> PyInt(1)])],
      entities |-> [x \in {} |-> SgUserAl], users |-> ("al@x.io" :> "al")],
     [sg_entity |-> [type |-> "Task", id |-> 7,
                     created_by |-> MkDict([type |-> PyStr("HumanUser"), id |-> PyInt(1)])],
      entities |-> (<<"HumanUser", 1>> :> SgUserAl), users |-> [x \in {} |-> "al"]],
     [sg_entity |-> [type |-> "Asset", id |-> 42,
                     created_by |-> MkDict([type |-> PyStr("HumanUser"), id |-> PyInt(1)])],
      entities |-> (<<"HumanUser", 1>> :> SgUserAl), users |-> ("al@x.io" :> "al")]}

JiraProject == [key |-> "PRJ", raw |-> MkDict([key |-> PyStr("PRJ")])]

JiraIssueTypes ==
    ("Task" :> [id |-> "10001",
                raw |-> MkDict([id |-> PyStr("10001"), name |-> PyStr("Task")])])

CreateInit ==
    /\ pc = "create"
    /\ \E sc \in CreateScenarios, m \in CreateMetaData :
        /\ args \in [sg_entity : {sc.sg_entity},
                     jira_project : {JiraProject},
                     issue_type : {"Task"},
                     summary : {"\n", "Fix\nit"},
                     description : {PyNone, PyStr("text")},
                     properties : {[x \in {} |-> PyNone],
                                   "priority" :> PyStr(""),
                                   "priority" :> PyStr("High")}]
        /\ jira = [createmeta |-> m, issue_types |-> JiraIssueTypes,
                   users |-> sc.users, current_user |-> "sg_jira_bridge",
                   create_issue_calls |-> <<>>]
        /\ shotgun = [entities |-> sc.entities]
        /\ locals = PyNone
    /\ ret = PyNone

CreateJiraIssueForEntity ==
    /\ pc = "create"
    /\ LET r == create_jira_issue_for_entity(args.sg_entity, args.jira_project,
                    args.issue_type, args.summary, args.description, args.properties)
       IN /\ ret' = r.ret
          /\ jira' = [jira EXCEPT !.create_issue_calls = @ \o r.created]
    /\ pc' = "done"
    /\ UNCHANGED <<args, shotgun, locals>>

CreateNext == CreateJiraIssueForEntity

SpecCreate == CreateInit /\ [][CreateNext]_vars

----------------------------------------------------------------------------
(* Claims about create_jira_issue_for_entity.                               *)

HasCreateMeta ==
    /\ Len(jira.createmeta.projects) > 0
    /\ Len(jira.createmeta.projects[1].issuetypes) > 0

CreateMeta == jira.createmeta.projects[1].issuetypes[1].fields

\* The candidate field set: the built-in fields and the caller's properties.
CandidateFields == BuiltinFields \cup DOMAIN args.properties

CandidateData ==
    create_data(args.sg_entity, args.jira_project, jira.issue_types[args.issue_type],
                args.summary, args.description, args.properties)

RequiredNoDefaultAbsent ==
    \E f \in DOMAIN CreateMeta :
        /\ CreateMeta[f].required
        /\ ~CreateMeta[f].hasDefaultValue
        /\ f \notin CandidateFields

\* C3: when the creation meta data holds a required field without a default
\* value which is not in the candidate field set, the call fails with a
\* ValueError and create_issue is never called.
C3_MissingRequiredAborts ==
    (pc = "done" /\ HasCreateMeta /\ RequiredNoDefaultAbsent) =>
        /\ ret = Raise("ValueError")
        /\ jira.create_issue_calls = <<>>

C3_Witness ==
    /\ pc = "done"
    /\ HasCreateMeta
    /\ RequiredNoDefaultAbsent
    /\ \A f \in DOMAIN CreateMeta \cap CandidateFields : Truthy(CandidateData[f])
    /\ ret = Raise("ValueError")

\* int(shotgun_id), as process_jira_event reads the Shotgun id field back.
ParseInt(s) ==
    CASE s = "0" -> 0
      [] s = "7" -> 7
      [] s = "42" -> 42

\* C4: after a successful creation for the Entity (type T, id N) the fields
\* given to create_issue hold T in the Shotgun type field and N in the
\* Shotgun id field, whatever the creation meta data.
C4_CrossReferenceRoundTrip ==
    (pc = "done" /\ ret.k = "return") =>
        /\ Len(jira.create_issue_calls) = 1
        /\ LET data == jira.create_issue_calls[1] IN
           /\ jira_shotgun_type_field \in DOMAIN data
           /\ jira_shotgun_id_field \in DOMAIN data
           /\ data[jira_shotgun_type_field] = PyStr(args.sg_entity.type)
           /\ ParseInt(data[jira_shotgun_id_field].s) = args.sg_entity.id

\* C5: the fields given to create_issue are all in the creation meta data
\* and none is both empty and required: an empty required field with a
\* default value was removed, and an empty required field without one makes
\* the call fail with a ValueError before create_issue is called.
C5_SubmittedFieldsValid ==
    (pc = "done" /\ HasCreateMeta) =>
        /\ Len(jira.create_issue_calls) <= 1
        /\ \A i \in DOMAIN jira.create_issue_calls :
            LET data == jira.create_issue_calls[i] IN
            /\ ret.k = "return"
            /\ DOMAIN data \subseteq DOMAIN CreateMeta
            /\ \A f \in DOMAIN data : ~(~Truthy(data[f]) /\ CreateMeta[f].required)
            /\ \A f \in DOMAIN data : data[f] = CandidateData[f]
        /\ (\E f \in CandidateFields \cap DOMAIN CreateMeta :
                /\ ~Truthy(CandidateData[f])
                /\ CreateMeta[f].required
                /\ ~CreateMeta[f].hasDefaultValue)
            => (ret = Raise("ValueError") /\ jira.create_issue_calls = <<>>)

C5_Witness ==
    /\ pc = "done"
    /\ Len(jira.create_issue_calls) = 1
    /\ \E f \in CandidateFields \cap DOMAIN CreateMeta :
        /\ ~Truthy(CandidateData[f])
        /\ CreateMeta[f].required
        /\ CreateMeta[f].hasDefaultValue
        /\ f \notin DOMAIN jira.create_issue_calls[1]
    /\ \E f \in CandidateFields : f \notin DOMAIN CreateMeta

\* The Entity was created by a user Shotgun holds, and Jira has a user with
\* the email address of this user.
CreatorHasJiraUser ==
    LET created_by == args.sg_entity.created_by
        key == <<created_by.d["type"].s, created_by.d["id"].n>>
    IN /\ created_by.d["type"] = PyStr("HumanUser")
       /\ key \in DOMAIN shotgun.entities
       /\ shotgun.entities[key].email.s \in DOMAIN jira.users

\* The name of the Jira user with the email address of the creator.
CreatorJiraName ==
    LET created_by == args.sg_entity.created_by IN
    PyStr(jira.users[shotgun.entities[<<created_by.d["type"].s,
                                        created_by.d["id"].n>>].email.s])

\* C25: the reporter given to create_issue is the Jira user with the email
\* address of the user who created the Entity, when the creator is a user,
\* Shotgun holds it and Jira has such a user; it is the user the bridge runs
\* as in every other case. The reporter is given whenever the creation meta
\* data holds the reporter field.
C25_Reporter ==
    (pc = "done" /\ HasCreateMeta) =>
        \A i \in DOMAIN jira.create_issue_calls :
            LET data == jira.create_issue_calls[i] IN
            /\ "reporter" \in DOMAIN CreateMeta => "reporter" \in DOMAIN data
            /\ "reporter" \in DOMAIN data =>
                    data["reporter"] =
                        MkDict([name |-> IF CreatorHasJiraUser THEN CreatorJiraName
                                         ELSE PyStr(jira.current_user)])

\* An Issue was created with the Jira user of the creator as its reporter.
C25_Witness ==
    /\ pc = "done"
    /\ Len(jira.create_issue_calls) = 1
    /\ CreatorHasJiraUser
    /\ "reporter" \in DOMAIN jira.create_issue_calls[1]
    /\ jira.create_issue_calls[1]["reporter"] = MkDict([name |-> PyStr("al")])

\* An Issue was created for an Entity whose creator has no Jira user, with
\* the user the bridge runs as as its reporter.
C25_WitnessFallback ==
    /\ pc = "done"
    /\ Len(jira.create_issue_calls) = 1
    /\ args.sg_entity.created_by.d["type"] = PyStr("HumanUser")
    /\ ~CreatorHasJiraUser
    /\ "reporter" \in DOMAIN jira.create_issue_calls[1]
    /\ jira.create_issue_calls[1]["reporter"] = MkDict([name |-> PyStr("sg_jira_bridge")])

----------------------------------------------------------------------------
(* get_jira_value_for_shotgun_value                                         *)

\* Whether an entry of the allowed values is the lowercased name: a
\* dictionary by its "value" or its "name" key, a string by itself.
allowed_value_matches(allowed_value, sg_value_name) ==
    IF allowed_value.k = "dict"
    THEN \/ HasKey(allowed_value, "value") /\ Lower(allowed_value.d["value"].s) = sg_value_name
         \/ HasKey(allowed_value, "name") /\ Lower(allowed_value.d["name"].s) = sg_value_name
    ELSE Lower(allowed_value.s) = sg_value_name

\* The first entry of the allowed values matching the Shotgun value, None
\* when there is none.
match_allowed_value(allowed_values, shotgun_value) ==
    LET sg_value_name == IF shotgun_value.k = "dict" THEN shotgun_value.d["name"]
                         ELSE shotgun_value
    IN
    IF sg_value_name.k # "str" THEN Raise("AttributeError")
    ELSE LET matching == {i \in DOMAIN allowed_values.l :
                            allowed_value_matches(allowed_values.l[i], Lower(sg_value_name.s))}
         IN IF matching = {} THEN Return(PyNone)
            ELSE Return(allowed_values.l[CHOOSE i \in matching : \A j \in matching : i <= j])

\* self.jira.find_jira_assignee_for_issue(email_address, jira_project,
\* jira_issue): the Jira user with this email address who can be assigned
\* the Issue, None when there is none.
find_jira_assignee_for_issue(email_address, jira_project, jira_issue) ==
    find_jira_user(email_address)

\* The empty value for a Jira field type.
empty_jira_value_mut(jira_type) == PyNone

empty_jira_value(jira_type) ==
    IF jira_type = PyStr("string") THEN PyStr("") ELSE PyNone

\* The value for a field without allowed values: the Shotgun value, but for
\* the assignee, labels, summary and timetracking fields.
open_jira_value(jira_project, jira_issue, jira_field, shotgun_value) ==
    CASE jira_field = "assignee" ->
            IF shotgun_value.k = "dict" /\ ~Truthy(Get(shotgun_value, "email"))
            THEN Return(PyNone)
            ELSE Return(find_jira_assignee_for_issue(
                    IF shotgun_value.k = "dict" THEN Get(shotgun_value, "email")
                    ELSE shotgun_value,
                    jira_project, jira_issue))
      [] jira_field = "labels" ->
            IF shotgun_value.k = "dict" THEN Return(shotgun_value.d["name"])
            ELSE Return(shotgun_value)
      [] jira_field = "summary" ->
            IF shotgun_value.k # "str" THEN Raise("AttributeError")
            ELSE Return(PyStr(StripNewlines(shotgun_value.s)))
      [] jira_field = "timetracking" ->
            IF shotgun_value.k # "int" THEN Raise("TypeError")
            ELSE Return(MkDict([originalEstimate |-> PyStr(FormatD(shotgun_value.n) \o " m")]))
      [] OTHER -> Return(shotgun_value)

get_jira_value_for_shotgun_value(jira_project, jira_issue, jira_field, jira_field_schema, sg_value) ==
    IF sg_value = PyNone THEN Return(PyNone)
    ELSE IF ~Truthy(sg_value)
    THEN Return(empty_jira_value(jira_field_schema.d["schema"].d["type"]))
    ELSE
    LET shotgun_value == IF sg_value.k = "dict" THEN consolidate_entity(sg_value)
                         ELSE sg_value
        allowed_values == Get(jira_field_schema, "allowedValues")
    IN
    IF Truthy(allowed_values) THEN match_allowed_value(allowed_values, shotgun_value)
    ELSE open_jira_value(jira_project, jira_issue, jira_field, shotgun_value)

\* The Entities Shotgun holds in the translations: two users, one of them
\* without an email address, and an Asset.  Asset 6 was deleted.
SgEntities ==
    (<<"HumanUser", 1>> :> SgUserAl) @@
    (<<"HumanUser", 2>> :> [type |-> PyStr("HumanUser"), id |-> PyInt(2),
                            name |-> PyStr("Bo"), email |-> PyNone]) @@
    (<<"Asset", 5>> :> [type |-> PyStr("Asset"), id |-> PyInt(5),
                        name |-> PyStr("High")])

SgEntityRef(type, id) == MkDict([type |-> PyStr(type), id |-> PyInt(id)])

\* The Shotgun values with a false truth value, None apart.
SgEmptyValues == {PyStr(""), PyInt(0), PyList(<<>>), PyDict(EmptyDict)}

SgStrings == {PyStr("high"), PyStr("Low"), PyStr("urgent"), PyStr("\n"),
              PyStr("Fix\nit"), PyStr("al@x.io"), PyStr("zed@x.io")}

SgEntityValues == {SgEntityRef("HumanUser", 1), SgEntityRef("HumanUser", 2),
                   SgEntityRef("Asset", 5), SgEntityRef("Asset", 6)}

SgValues == {PyNone} \cup SgEmptyValues \cup SgStrings \cup SgEntityValues \cup {PyInt(90)}

JiraFieldIds == {"assignee", "labels", "summary", "timetracking", "priority",
                 "customfield_10100"}

JiraSchemaTypes == {"string", "array", "user", "option", "priority",
                    "timetracking", "number"}

JiraAllowedValues ==
    {Absent, PyList(<<>>),
     PyList(<<PyStr("High"), PyStr("Low")>>),
     PyList(<<MkDict([id |-> PyStr("1"), value |-> PyStr("High")]),
              MkDict([id |-> PyStr("2"), value |-> PyStr("Low")])>>),
     PyList(<<MkDict([id |-> PyStr("1"), name |-> PyStr("HIGH")]),
              MkDict([id |-> PyStr("2"), name |-> PyStr("High")]),
              MkDict([id |-> PyStr("3")])>>)}

\* The edit (or create) meta data of a Jira field.
JiraFieldSchemas ==
    {MkDict([schema |-> MkDict([type |-> PyStr(t)]), allowedValues |-> a]) :
        t \in JiraSchemaTypes, a \in JiraAllowedValues}

JiraUsers == ("al@x.io" :> "al")

TranslateInit ==
    /\ pc = "translate"
    /\ args \in [jira_project : {JiraProject},
                 jira_field : JiraFieldIds,
                 jira_field_schema : JiraFieldSchemas,
                 shotgun_value : SgValues]
    /\ ret = PyNone
    /\ jira = [users |-> JiraUsers]
    /\ shotgun = [entities |-> SgEntities]
    /\ locals = PyNone

GetJiraValueForShotgunValue ==
    /\ pc = "translate"
    /\ ret' = get_jira_value_for_shotgun_value(args.jira_project, PyNone,
                args.jira_field, args.jira_field_schema, args.shotgun_value)
    /\ pc' = "done"
    /\ UNCHANGED <<args, jira, shotgun, locals>>

TranslateNext == GetJiraValueForShotgunValue

SpecTranslate == TranslateInit /\ [][TranslateNext]_vars

----------------------------------------------------------------------------
(* Claims about get_jira_value_for_shotgun_value.                           *)

TargetType == args.jira_field_schema.d["schema"].d["type"]

\* C7, as claimed: an empty or None Shotgun value gives None, but the empty
\* string exactly when the Jira field type is string, for None and for
\* empty values alike.
C7_EmptyValueOriginal ==
    (pc = "done" /\ ~Truthy(args.shotgun_value)) =>
        ret = Return(IF TargetType = PyStr("string") THEN PyStr("") ELSE PyNone)

\* C7, amended: a None Shotgun value gives None for every Jira field type;
\* an empty Shotgun value other than None gives the empty string exactly
\* when the Jira field type is string, and None for every other type.
C7_EmptyValue ==
    (pc = "done" /\ ~Truthy(args.shotgun_value)) =>
        ret = Return(IF args.shotgun_value # PyNone /\ TargetType = PyStr("string")
                     THEN PyStr("") ELSE PyNone)

C7_Witness ==
    /\ pc = "done"
    /\ args.shotgun_value = PyInt(0)
    /\ TargetType = PyStr("string")
    /\ Get(args.jira_field_schema, "allowedValues") # PyNone
    /\ ret = Return(PyStr(""))

\* The name under which a Shotgun value is looked up in the allowed values:
\* a string itself, the name of the Entity for an Entity.
SourceName(v) ==
    IF v.k = "str" THEN v.s
    ELSE IF /\ v.k = "dict"
            /\ {"type", "id"} \subseteq DOMAIN v.d
            /\ <<v.d["type"].s, v.d["id"].n>> \in DOMAIN SgEntities
         THEN SgEntities[<<v.d["type"].s, v.d["id"].n>>].name.s
         ELSE "?"

\* The entries of the allowed values equal to the name whatever the case.
EntriesNamed(allowed_values, name) ==
    {e \in {allowed_values.l[i] : i \in DOMAIN allowed_values.l} :
        \/ e.k = "str" /\ Lower(e.s) = Lower(name)
        \/ e.k = "dict" /\ HasKey(e, "value") /\ Lower(e.d["value"].s) = Lower(name)
        \/ e.k = "dict" /\ HasKey(e, "name") /\ Lower(e.d["name"].s) = Lower(name)}

\* C8: with a non-empty set of allowed values and a non-empty Shotgun value
\* the result is the allowed entry equal to the value whatever the case, and
\* None when no entry matches: always None or one of the allowed values.
C8_AllowedValueOrNone ==
    (/\ pc = "done"
     /\ Truthy(args.shotgun_value)
     /\ Truthy(Get(args.jira_field_schema, "allowedValues"))) =>
        LET allowed_values == Get(args.jira_field_schema, "allowedValues")
            named == IF SourceName(args.shotgun_value) = "?" THEN {}
                     ELSE EntriesNamed(allowed_values, SourceName(args.shotgun_value))
        IN /\ ret.k = "return"
           /\ IF named = {} THEN ret.v = PyNone ELSE ret.v \in named

----------------------------------------------------------------------------
(* get_jira_value_for_shotgun_list_changes                                  *)

\* `value in current_value` for a list.
InList(value, list) == \E i \in DOMAIN list.l : list.l[i] = value

\* current_value.remove(value): the list without the first value.
ListRemove(list, value) ==
    LET first == CHOOSE i \in DOMAIN list.l :
                    list.l[i] = value /\ \A j \in 1..(i - 1) : list.l[j] # value
    IN PyList([i \in 1..(Len(list.l) - 1) |->
                IF i < first THEN list.l[i] ELSE list.l[i + 1]])

\* current_value.append(value)
ListAppend(list, value) == PyList(Append(list.l, value))

\* The Issue, its field and the schema of the field, which every
\* translation of a list change is given.
Ctx(jira_project, jira_issue, jira_field, jira_field_schema) ==
    [jira_project |-> jira_project, jira_issue |-> jira_issue,
     jira_field |-> jira_field, jira_field_schema |-> jira_field_schema]

Translate(ctx, shotgun_value) ==
    get_jira_value_for_shotgun_value(ctx.jira_project, ctx.jira_issue,
        ctx.jira_field, ctx.jira_field_schema, shotgun_value)

\* The loop on the removed values of an array field: cur is the current
\* value, exc the exception which ended the loop, if any.
RECURSIVE array_remove_loop(_, _, _)
array_remove_loop(ctx, current_value, shotgun_removed) ==
    LET Removed(value) ==
            IF value.k = "raise" THEN [cur |-> current_value, exc |-> value.exc]
            ELSE IF InList(value.v, current_value)
            THEN array_remove_loop(ctx, ListRemove(current_value, value.v),
                                   Tail(shotgun_removed))
            ELSE array_remove_loop(ctx, current_value, Tail(shotgun_removed))
    IN IF shotgun_removed = <<>> THEN [cur |-> current_value, exc |-> ""]
       ELSE Removed(Translate(ctx, Head(shotgun_removed)))

\* `if value and value not in current_value: current_value.append(value)`
array_add_value(current_value, value) ==
    IF ~Truthy(value) THEN [cur |-> current_value, exc |-> ""]
    ELSE IF current_value.k # "list" THEN [cur |-> current_value, exc |-> "TypeError"]
    ELSE IF InList(value, current_value) THEN [cur |-> current_value, exc |-> ""]
    ELSE [cur |-> ListAppend(current_value, value), exc |-> ""]

\* The loop on the added values of an array field.
RECURSIVE array_add_loop(_, _, _)
array_add_loop(ctx, current_value, shotgun_added) ==
    LET Next(step) ==
            IF step.exc # "" THEN step
            ELSE array_add_loop(ctx, step.cur, Tail(shotgun_added))
        Added(value) ==
            IF value.k = "raise" THEN [cur |-> current_value, exc |-> value.exc]
            ELSE Next(array_add_value(current_value, value.v))
    IN IF shotgun_added = <<>> THEN [cur |-> current_value, exc |-> ""]
       ELSE Added(Translate(ctx, Head(shotgun_added)))

\* The loop on the removed values of a field holding a single value: the
\* current value is unset if it is one of the removed values.
RECURSIVE scalar_remove_loop(_, _, _)
scalar_remove_loop(ctx, current_value, shotgun_removed) ==
    LET Removed(value) ==
            IF value.k = "raise" THEN [cur |-> current_value, exc |-> value.exc]
            ELSE IF value.v = current_value THEN [cur |-> PyNone, exc |-> ""]
            ELSE scalar_remove_loop(ctx, current_value, Tail(shotgun_removed))
    IN IF shotgun_removed = <<>> THEN [cur |-> current_value, exc |-> ""]
       ELSE Removed(Translate(ctx, Head(shotgun_removed)))

\* The loop on the added values of a field holding a single value: the
\* first value with a Jira value is taken.
RECURSIVE scalar_add_loop(_, _, _)
scalar_add_loop(ctx, current_value, shotgun_added) ==
    LET Added(value) ==
            IF value.k = "raise" THEN [cur |-> current_value, exc |-> value.exc]
            ELSE IF Truthy(value.v) THEN [cur |-> value.v, exc |-> ""]
            ELSE scalar_add_loop(ctx, current_value, Tail(shotgun_added))
    IN IF shotgun_added = <<>> THEN [cur |-> current_value, exc |-> ""]
       ELSE Added(Translate(ctx, Head(shotgun_added)))

\* The outcome of the loops: the value they end with, or the exception.
list_changes_outcome(loops, field_value) ==
    [ret |-> IF loops.exc # "" THEN Raise(loops.exc) ELSE Return(loops.cur),
     field_value |-> field_value]

\* The list changes of an array field: the list the Issue holds is modified
\* in place.
array_list_changes(ctx, current_value, shotgun_added, shotgun_removed) ==
    LET Outcome(added) == list_changes_outcome(added, added.cur)
        Added(removed) ==
            IF removed.exc # "" THEN Outcome(removed)
            ELSE Outcome(array_add_loop(ctx, removed.cur, shotgun_added))
    IN IF Truthy(current_value)
       THEN Added(array_remove_loop(ctx, current_value, shotgun_removed))
       ELSE Added([cur |-> current_value, exc |-> ""])

\* The list changes of a field holding a single value.
scalar_list_changes(ctx, current_value, shotgun_added, shotgun_removed) ==
    LET Outcome(added) == list_changes_outcome(added, current_value)
        Added(removed) ==
            IF removed.exc = "" /\ ~Truthy(removed.cur) /\ Len(shotgun_added) > 0
            THEN Outcome(scalar_add_loop(ctx, removed.cur, shotgun_added))
            ELSE Outcome(removed)
    IN IF Truthy(current_value)
       THEN Added(scalar_remove_loop(ctx, current_value, shotgun_removed))
       ELSE Added([cur |-> current_value, exc |-> ""])

\* The outcome of the call, with the value of the field in the Issue object
\* after the call.
get_jira_value_for_shotgun_list_changes(jira_project, jira_issue, jira_field, jira_field_schema, shotgun_added, shotgun_removed) ==
    IF jira_field_schema.d["schema"].d["type"] = PyStr("array")
    THEN array_list_changes(Ctx(jira_project, jira_issue, jira_field, jira_field_schema),
                            jira_issue.fields[jira_field], shotgun_added, shotgun_removed)
    ELSE scalar_list_changes(Ctx(jira_project, jira_issue, jira_field, jira_field_schema),
                             jira_issue.fields[jira_field], shotgun_added, shotgun_removed)

\* The Shotgun values of the list changes.
SgListValues ==
    {SgEntityRef("Asset", 5), SgEntityRef("Asset", 6), SgEntityRef("HumanUser", 1),
     PyStr("high"), PyStr("Low")}

\* The number of added values and of removed values of a list change.
MaxAdded == 2
MaxRemoved == 1

SeqsUpTo(S, n) == UNION {[1..m -> S] : m \in 0..n}

FieldSchema(type, allowed_values) ==
    MkDict([schema |-> MkDict([type |-> PyStr(type)]), allowedValues |-> allowed_values])

JiraUserAl == Resource(MkDict([name |-> PyStr("al"), emailAddress |-> PyStr("al@x.io")]))
JiraUserZed == Resource(MkDict([name |-> PyStr("zed"), emailAddress |-> PyStr("zed@x.io")]))

OptionHigh == MkDict([id |-> PyStr("1"), value |-> PyStr("High")])
OptionLow == MkDict([id |-> PyStr("2"), value |-> PyStr("Low")])

\* The Jira fields of the list changes: the field, its edit meta data and the
\* values the Issue can hold for it.
ListTargets ==
    {[jira_field |-> "labels", schema |-> FieldSchema("array", Absent),
      currents |-> {PyNone, PyList(<<>>), PyList(<<PyStr("High")>>),
                    PyList(<<PyStr("High"), PyStr("Al")>>)}],
     [jira_field |-> "customfield_10100",
      schema |-> FieldSchema("array", PyList(<<OptionHigh, OptionLow>>)),
      currents |-> {PyNone, PyList(<<>>), PyList(<<OptionHigh>>),
                    PyList(<<OptionHigh, OptionLow>>), PyList(<<Resource(OptionLow)>>)}],
     [jira_field |-> "assignee", schema |-> FieldSchema("user", Absent),
      currents |-> {PyNone, JiraUserAl, JiraUserZed}],
     [jira_field |-> "priority",
      schema |-> FieldSchema("priority", PyList(<<PyStr("High"), PyStr("Low")>>)),
      currents |-> {PyNone, PyStr("High"), PyStr("Low")}],
     [jira_field |-> "customfield_10200", schema |-> FieldSchema("string", Absent),
      currents |-> {PyNone, PyStr(""), PyStr("High"), PyStr("high")}]}

\* The number of times the same list change is applied to the Issue.
MaxApplications == 2

ListInit ==
    /\ pc = "list"
    /\ \E t \in ListTargets : \E current_value \in t.currents :
        /\ args \in [jira_project : {JiraProject},
                     jira_field : {t.jira_field},
                     jira_field_schema : {t.schema},
                     current_value : {current_value},
                     shotgun_added : SeqsUpTo(SgListValues, MaxAdded),
                     shotgun_removed : SeqsUpTo(SgListValues, MaxRemoved)]
        /\ jira = [users |-> JiraUsers,
                   issue |-> [key |-> "KEY-1",
                              fields |-> (t.jira_field :> current_value)],
                   updates |-> <<>>]
    /\ ret = PyNone
    /\ shotgun = [entities |-> SgEntities]
    /\ locals = PyNone

GetJiraValueForShotgunListChanges ==
    /\ pc = "list"
    /\ \E r \in {get_jira_value_for_shotgun_list_changes(args.jira_project, jira.issue,
                    args.jira_field, args.jira_field_schema,
                    args.shotgun_added, args.shotgun_removed)} :
          /\ ret' = r.ret
          /\ jira' = [jira EXCEPT !.issue.fields[args.jira_field] = r.field_value]
          /\ pc' = IF r.ret.k = "raise" THEN "done" ELSE "update"
    /\ UNCHANGED <<args, shotgun, locals>>

\* The returned value is the value of the field once the Issue is updated
\* with it.
JiraIssueUpdated ==
    /\ pc = "update"
    /\ jira' = [jira EXCEPT !.issue.fields[args.jira_field] = ret.v,
                            !.updates = Append(@, ret.v)]
    /\ pc' = IF Len(jira.updates) + 1 < MaxApplications THEN "list" ELSE "done"
    /\ UNCHANGED <<args, ret, shotgun, locals>>

ListNext == GetJiraValueForShotgunListChanges \/ JiraIssueUpdated

SpecList == ListInit /\ [][ListNext]_vars

----------------------------------------------------------------------------
(* Claims about get_jira_value_for_shotgun_list_changes.                    *)

NoDuplicates(list) ==
    \A i, j \in DOMAIN list.l : list.l[i] = list.l[j] => i = j

\* C9: applying the same added and removed values again to the result of a
\* list change gives the same value as applying them once, without any
\* duplicate entry, for array fields and for fields holding a single value.
C9_ListChangeIdempotent ==
    (pc = "done" /\ Len(jira.updates) >= 1) =>
        /\ Len(jira.updates) = MaxApplications
        /\ \A i \in DOMAIN jira.updates :
            /\ jira.updates[i] = jira.updates[1]
            /\ jira.updates[i].k = "list" => NoDuplicates(jira.updates[i])

\* The list change was applied once, to a field holding a single value.
ScalarChangeApplied ==
    /\ args.jira_field_schema.d["schema"].d["type"] # PyStr("array")
    /\ Len(jira.updates) >= 1 \/ (pc = "done" /\ jira.updates = <<>>)

\* The outcome of the first application of the list change.
FirstOutcome == IF Len(jira.updates) >= 1 THEN Return(jira.updates[1]) ELSE ret

\* The Jira value of a Shotgun value of the list change.
ListTranslation(shotgun_value) ==
    Translate(Ctx(args.jira_project, jira.issue, args.jira_field, args.jira_field_schema),
              shotgun_value)

\* The current value is the Jira value of one of the removed values.
CurrentRemoved ==
    /\ Truthy(args.current_value)
    /\ \E i \in DOMAIN args.shotgun_removed :
            ListTranslation(args.shotgun_removed[i]) = Return(args.current_value)

\* The places of the added values which have a Jira value.
TranslatedAdded ==
    {i \in DOMAIN args.shotgun_added :
        /\ ListTranslation(args.shotgun_added[i]).k = "return"
        /\ Truthy(ListTranslation(args.shotgun_added[i]).v)}

\* C24: for a field holding a single value, when the current value is
\* empty, or is the Jira value of a removed value, the call returns the Jira
\* value of the first added value which has one; when the current value is
\* not empty and is the Jira value of none of the removed values, the call
\* returns it as it is.
C24_ScalarListChange ==
    ScalarChangeApplied =>
        /\ ((CurrentRemoved \/ ~Truthy(args.current_value)) /\ TranslatedAdded # {}) =>
                FirstOutcome =
                    ListTranslation(args.shotgun_added[
                        CHOOSE i \in TranslatedAdded : \A j \in TranslatedAdded : i <= j])
        /\ (Truthy(args.current_value) /\ ~CurrentRemoved) =>
                FirstOutcome = Return(args.current_value)

----------------------------------------------------------------------------
(* get_jira_issue_field_sync_value                                          *)

\* The Shotgun fields of the handler and the Jira field each is synced to,
\* as a deriving class gives them: no Jira field for due_date, and a Jira
\* field which can't be edited for sg_locked.
ShotgunToJiraFields ==
    [content |-> PyStr("summary"),
     task_assignees |-> PyStr("assignee"),
     tags |-> PyStr("labels"),
     sg_priority |-> PyStr("priority"),
     est_in_mins |-> PyStr("timetracking"),
     sg_options |-> PyStr("customfield_10100"),
     sg_notes |-> PyStr("customfield_10200"),
     sg_locked |-> PyStr("resolution"),
     due_date |-> PyNone,
     sg_unknown |-> PyStr("customfield_10300")]

get_jira_issue_field_for_shotgun_field_mut(shotgun_entity_type, shotgun_field) ==
    PyStr("summary")

get_jira_issue_field_for_shotgun_field(shotgun_entity_type, shotgun_field) ==
    IF shotgun_field \in DOMAIN ShotgunToJiraFields
    THEN ShotgunToJiraFields[shotgun_field] ELSE PyNone

\* self.shotgun.get_field_schema(entity_type, field): None for a field
\* Shotgun does not know.
get_field_schema(shotgun_entity_type, shotgun_field) ==
    IF shotgun_field \in DOMAIN shotgun.schema THEN shotgun.schema[shotgun_field]
    ELSE PyNone

\* self.jira.sanitize_jira_update_value(jira_value, jira_field_schema): the
\* value as it is, or the value put in the form Jira takes for the field,
\* unless the value is not right for the field and a UserWarning is raised.
sanitize_jira_update_value(jira_value, jira_field_schema) ==
    CASE jira.sanitizer = "warning" -> Raise("UserWarning")
      [] jira.sanitizer = "changed" -> Return(MkDict([sanitized |-> jira_value]))
      [] OTHER -> Return(jira_value)

\* get_jira_issue_edit_meta: the fields of the edit meta data of the Issue.
get_jira_issue_edit_meta(jira_issue) ==
    LET jira_edit_fields == Get(jira.editmeta, "fields") IN
    IF ~Truthy(jira_edit_fields) THEN Raise("RuntimeError")
    ELSE Return(jira_edit_fields)

\* The raw value of a Resource, any other value as it is.
RawValue(value) == IF value.k = "resource" THEN value.raw ELSE value

\* The value of a list change: the raw values of the list returned for an
\* array field, the raw value of the value returned for another field.
list_change_raw_value(is_array, jira_value) ==
    IF is_array
    THEN IF jira_value.k # "list" THEN Raise("TypeError")
         ELSE Return(PyList([i \in DOMAIN jira_value.l |-> RawValue(jira_value.l[i])]))
    ELSE Return(RawValue(jira_value))

\* `if jira_value is None and shotgun_value`
untranslated(jira_value, shotgun_value) ==
    jira_value = PyNone /\ Truthy(shotgun_value)

\* The value for a new Shotgun value.
new_value_jira_value(ctx, is_array, shotgun_event_meta) ==
    LET Checked(shotgun_value, jira_value) ==
            IF jira_value.k = "raise" THEN jira_value
            ELSE IF untranslated(jira_value.v, shotgun_value)
            THEN Raise("InvalidShotgunValue")
            ELSE IF is_array
            THEN Return(IF Truthy(RawValue(jira_value.v))
                        THEN PyList(<<RawValue(jira_value.v)>>) ELSE PyList(<<>>))
            ELSE Return(RawValue(jira_value.v))
    IN IF ~HasKey(shotgun_event_meta, "new_value") THEN Raise("KeyError")
       ELSE Checked(shotgun_event_meta.d["new_value"],
                    Translate(ctx, shotgun_event_meta.d["new_value"]))

sanitized_result_mut(jira_field, jira_field_schema, jira_value) ==
    Return(<<PyStr(jira_field), jira_value>>)

\* The end of the call: the value is sanitized and returned with the field,
\* a warning of the sanitizer cancels the update.
sanitized_result(jira_field, jira_field_schema, jira_value) ==
    LET Result(sanitized) ==
            IF sanitized.k = "raise" THEN Return(<<PyNone, PyNone>>)
            ELSE Return(<<PyStr(jira_field), sanitized.v>>)
    IN Result(sanitize_jira_update_value(jira_value, jira_field_schema))

\* The call for added and removed values: its outcome, the fields of the
\* Issue object after the call, and the calls made.
list_changes_sync_value(jira_project, jira_issue, jira_field, jira_field_schema, is_array, shotgun_event_meta) ==
    LET Sanitized(fields, raw) ==
            IF raw.k = "raise"
            THEN [ret |-> raw, fields |-> fields, calls |-> {"editmeta", "translate"}]
            ELSE [ret |-> sanitized_result(jira_field, jira_field_schema, raw.v),
                  fields |-> fields, calls |-> {"editmeta", "translate", "sanitize"}]
        Changed(changes) ==
            IF changes.ret.k = "raise"
            THEN [ret |-> changes.ret,
                  fields |-> [jira_issue.fields EXCEPT ![jira_field] = changes.field_value],
                  calls |-> {"editmeta", "translate"}]
            ELSE Sanitized([jira_issue.fields EXCEPT ![jira_field] = changes.field_value],
                           list_change_raw_value(is_array, changes.ret.v))
    IN Changed(get_jira_value_for_shotgun_list_changes(jira_project, jira_issue,
                jira_field, jira_field_schema,
                IF HasKey(shotgun_event_meta, "added")
                THEN shotgun_event_meta.d["added"].l ELSE <<>>,
                IF HasKey(shotgun_event_meta, "removed")
                THEN shotgun_event_meta.d["removed"].l ELSE <<>>))

\* The call for a new value.
new_value_sync_value(jira_project, jira_issue, jira_field, jira_field_schema, is_array, shotgun_event_meta) ==
    LET Sanitized(value) ==
            IF value.k = "raise"
            THEN [ret |-> value, fields |-> jira_issue.fields,
                  calls |-> IF value.exc = "KeyError" THEN {"editmeta"}
                            ELSE {"editmeta", "translate"}]
            ELSE [ret |-> sanitized_result(jira_field, jira_field_schema, value.v),
                  fields |-> jira_issue.fields,
                  calls |-> {"editmeta", "translate", "sanitize"}]
    IN Sanitized(new_value_jira_value(
            Ctx(jira_project, jira_issue, jira_field, jira_field_schema),
            is_array, shotgun_event_meta))

\* The call for a Jira field which can be edited.
editable_field_sync_value(jira_project, jira_issue, jira_field, jira_field_schema, shotgun_event_meta) ==
    IF HasKey(shotgun_event_meta, "added") \/ HasKey(shotgun_event_meta, "removed")
    THEN list_changes_sync_value(jira_project, jira_issue, jira_field, jira_field_schema,
            jira_field_schema.d["schema"].d["type"] = PyStr("array"), shotgun_event_meta)
    ELSE new_value_sync_value(jira_project, jira_issue, jira_field, jira_field_schema,
            jira_field_schema.d["schema"].d["type"] = PyStr("array"), shotgun_event_meta)

\* The outcome of the call, the fields of the Issue object after the call,
\* and the calls made: "editmeta", "translate", "sanitize".
get_jira_issue_field_sync_value(jira_project, jira_issue, shotgun_entity_type, shotgun_field, shotgun_event_meta) ==
    LET field_schema == get_field_schema(shotgun_entity_type, shotgun_field)
        jira_field == get_jira_issue_field_for_shotgun_field(shotgun_entity_type, shotgun_field)
        Unchanged(r, c) == [ret |-> r, fields |-> jira_issue.fields, calls |-> c]
        Editable(jira_fields) ==
            IF jira_fields.k = "raise" THEN Unchanged(jira_fields, {"editmeta"})
            ELSE IF ~HasKey(jira_fields.v, jira_field.s)
            THEN Unchanged(Return(<<PyNone, PyNone>>), {"editmeta"})
            ELSE editable_field_sync_value(jira_project, jira_issue, jira_field.s,
                    jira_fields.v.d[jira_field.s], shotgun_event_meta)
    IN
    IF ~Truthy(field_schema) THEN Unchanged(Raise("ValueError"), {})
    ELSE IF ~Truthy(jira_field) THEN Unchanged(Return(<<PyNone, PyNone>>), {})
    ELSE Editable(get_jira_issue_edit_meta(jira_issue))

\* The fields of the edit meta data of the Issue: resolution can't be edited.
EditMetaFields ==
    [summary |-> FieldSchema("string", Absent),
     assignee |-> FieldSchema("user", Absent),
     labels |-> FieldSchema("array", Absent),
     priority |-> FieldSchema("priority", PyList(<<PyStr("High"), PyStr("Low")>>)),
     timetracking |-> FieldSchema("timetracking", Absent),
     customfield_10100 |-> FieldSchema("array", PyList(<<OptionHigh, OptionLow>>)),
     customfield_10200 |-> FieldSchema("string", Absent),
     customfield_10300 |-> FieldSchema("string", Absent)]

\* What self.jira.editmeta returns: the fields, or nothing.
EditMetaData == {MkDict([fields |-> PyDict(EditMetaFields)]), PyDict(EmptyDict)}

\* The schemas of the Shotgun fields: Shotgun does not know sg_unknown.
ShotgunFieldSchemas ==
    [f \in DOMAIN ShotgunToJiraFields \ {"sg_unknown"} |->
        MkDict([data_type |-> MkDict([value |-> PyStr("text")])])]

\* The values the Issue can hold for a Jira field.
IssueFieldValues(jira_field) ==
    IF \E t \in ListTargets : t.jira_field = jira_field
    THEN UNION {t.currents : t \in {u \in ListTargets : u.jira_field = jira_field}}
    ELSE IF jira_field = "summary" THEN {PyStr("High"), PyStr("")}
    ELSE {PyNone}

\* The number of added values and of removed values of a Shotgun event.
MaxEventAdded == 1
MaxEventRemoved == 1

\* The meta data of a Shotgun event: a new value, added and removed values,
\* or none of them.
ShotgunEventMetas ==
    {MkDict([type |-> PyStr("attribute_change"), new_value |-> v]) : v \in SgValues}
    \cup {MkDict([type |-> PyStr("attribute_change"), added |-> a, removed |-> r]) :
            a \in {Absent} \cup {PyList(l) : l \in SeqsUpTo(SgListValues, MaxEventAdded)},
            r \in {Absent} \cup {PyList(l) : l \in SeqsUpTo(SgListValues, MaxEventRemoved)}}

SyncInit ==
    /\ pc = "sync"
    /\ \E shotgun_field \in DOMAIN ShotgunToJiraFields :
       \E jira_field \in {ShotgunToJiraFields[shotgun_field]} :
       \E current_value \in (IF jira_field = PyNone THEN {PyNone}
                             ELSE IssueFieldValues(jira_field.s)) :
        /\ args \in [jira_project : {JiraProject},
                     shotgun_entity_type : {"Task"},
                     shotgun_field : {shotgun_field},
                     shotgun_event_meta : ShotgunEventMetas]
        /\ jira \in [users : {JiraUsers},
                     issue : {[key |-> "KEY-1",
                               fields |-> [f \in DOMAIN EditMetaFields \cup {"resolution"} |->
                                            IF PyStr(f) = jira_field THEN current_value
                                            ELSE PyNone]]},
                     editmeta : EditMetaData,
                     sanitizer : {"value", "changed", "warning"},
                     calls : {{}}]
    /\ ret = PyNone
    /\ shotgun = [entities |-> SgEntities, schema |-> ShotgunFieldSchemas]
    /\ locals = PyNone

GetJiraIssueFieldSyncValue ==
    /\ pc = "sync"
    /\ \E r \in {get_jira_issue_field_sync_value(args.jira_project, jira.issue,
                    args.shotgun_entity_type, args.shotgun_field, args.shotgun_event_meta)} :
          /\ ret' = r.ret
          /\ jira' = [jira EXCEPT !.issue.fields = r.fields, !.calls = r.calls]
    /\ pc' = "done"
    /\ UNCHANGED <<args, shotgun, locals>>

SyncNext == GetJiraIssueFieldSyncValue

SpecSync == SyncInit /\ [][SyncNext]_vars

----------------------------------------------------------------------------
(* Claims about get_jira_issue_field_sync_value.                            *)

\* The Jira field of the call, when the Shotgun field is known, has a Jira
\* field and the Issue allows to edit it.
SyncJiraField ==
    ShotgunToJiraFields[args.shotgun_field].s

SyncReachesTranslation ==
    /\ args.shotgun_field \in DOMAIN shotgun.schema
    /\ ShotgunToJiraFields[args.shotgun_field] # PyNone
    /\ HasKey(jira.editmeta, "fields")
    /\ HasKey(jira.editmeta.d["fields"], SyncJiraField)

SnapshotForm ==
    /\ HasKey(args.shotgun_event_meta, "new_value")
    /\ ~HasKey(args.shotgun_event_meta, "added")
    /\ ~HasKey(args.shotgun_event_meta, "removed")

\* What the translation of a single value gives for the new value.
SnapshotTranslation ==
    get_jira_value_for_shotgun_value(args.jira_project, jira.issue, SyncJiraField,
        jira.editmeta.d["fields"].d[SyncJiraField],
        args.shotgun_event_meta.d["new_value"])

\* C6: with a new value in the event, when the new value is not empty and
\* its translation gives an empty value, the call raises InvalidShotgunValue,
\* and no field is returned with an empty value for a new value which is not
\* empty.
C6_UntranslatableValueRaises ==
    (pc = "done" /\ SyncReachesTranslation /\ SnapshotForm
        /\ Truthy(args.shotgun_event_meta.d["new_value"])) =>
        /\ (SnapshotTranslation.k = "return" /\ ~Truthy(SnapshotTranslation.v))
            => ret = Raise("InvalidShotgunValue")
        /\ (ret.k = "return" /\ ret.v[1] # PyNone) => Truthy(ret.v[2])

\* C13: when the sanitizer raises a UserWarning for the value, the call
\* returns (None, None) and no exception leaves it; a value returned with a
\* field is always the value the sanitizer returned.
C13_SanitizerWarningCancels ==
    pc = "done" =>
        /\ ("sanitize" \in jira.calls /\ jira.sanitizer = "warning") =>
                ret = Return(<<PyNone, PyNone>>)
        /\ ret.k = "raise" => ret.exc # "UserWarning"
        /\ (ret.k = "return" /\ ret.v[1] # PyNone) =>
                /\ "sanitize" \in jira.calls
                /\ jira.sanitizer # "warning"
                /\ jira.sanitizer = "changed" =>
                        ret.v[2].k = "dict" /\ HasKey(ret.v[2], "sanitized")

C13_Witness ==
    pc = "done" /\ SyncReachesTranslation /\ "sanitize" \in jira.calls
        /\ jira.sanitizer = "warning" /\ ret = Return(<<PyNone, PyNone>>)

\* C14: for a Shotgun field with a schema and without any Jira field, the
\* call returns (None, None) without raising, and neither the edit meta data
\* is retrieved nor a value translated or sanitized.
C14_UnmappedFieldSkipped ==
    (pc = "done" /\ args.shotgun_field \in DOMAIN shotgun.schema
        /\ ShotgunToJiraFields[args.shotgun_field] = PyNone) =>
            /\ ret = Return(<<PyNone, PyNone>>)
            /\ jira.calls = {}

C14_Witness ==
    pc = "done" /\ args.shotgun_field = "due_date"
        /\ args.shotgun_field \in DOMAIN shotgun.schema
        /\ ~HasKey(jira.editmeta, "fields")
        /\ Truthy(Get(args.shotgun_event_meta, "new_value"))
        /\ ret = Return(<<PyNone, PyNone>>)

\* The call went to the list changes of an array field: the event holds
\* added or removed values.
ArrayDeltaForm ==
    /\ pc = "done" /\ SyncReachesTranslation
    /\ jira.editmeta.d["fields"].d[SyncJiraField].d["schema"].d["type"] = PyStr("array")
    /\ HasKey(args.shotgun_event_meta, "added") \/ HasKey(args.shotgun_event_meta, "removed")

\* The value the call returned, as it was given to the sanitizer.
ValueBeforeSanitizing ==
    IF jira.sanitizer = "changed" THEN ret.v[2].d["sanitized"] ELSE ret.v[2]

\* The Jira values, in raw form, of the added values which have one.
AddedTranslations ==
    LET added == Get(args.shotgun_event_meta, "added")
        Translated(shotgun_value) ==
            get_jira_value_for_shotgun_value(args.jira_project, jira.issue, SyncJiraField,
                jira.editmeta.d["fields"].d[SyncJiraField], shotgun_value)
    IN IF added.k # "list" THEN {}
       ELSE {RawValue(Translated(added.l[i]).v) :
                i \in {j \in DOMAIN added.l :
                        /\ Translated(added.l[j]).k = "return"
                        /\ Truthy(Translated(added.l[j]).v)}}

\* C26: for an array field and an event with added or removed values, the
\* call raises nothing but InvalidShotgunValue, whatever the current value
\* of the field, None and the empty list included; the value given to the
\* sanitizer is a list, which holds the Jira value of every added value
\* which has one.
C26_ArrayDeltaValue ==
    ArrayDeltaForm =>
        /\ ret.k = "raise" => ret.exc = "InvalidShotgunValue"
        /\ (ret.k = "return" /\ jira.sanitizer # "warning") =>
                /\ ValueBeforeSanitizing.k = "list"
                /\ \A value \in AddedTranslations :
                        \E i \in DOMAIN ValueBeforeSanitizing.l :
                            ValueBeforeSanitizing.l[i] = value

\* C27: the call leaves the Issue it is given as it was: every field of the
\* Issue holds after the call the value it held before it, for an event
\* with a new value and for an event with added or removed values.
C27_IssueLeftUnchanged ==
    [][GetJiraIssueFieldSyncValue => jira'.issue = jira.issue]_vars

----------------------------------------------------------------------------
(* get_shotgun_entity_field_sync_value and the values it returns            *)

\* sg_jira_statuses_mapping of a deriving class: the Jira status of the
\* Shotgun status codes.
sg_jira_statuses_mapping == [ip |-> "In Progress", fin |-> "Done"]

\* The Shotgun field each Jira field is synced to, as a deriving class gives
\* them: none for comment.
JiraToShotgunFields ==
    [summary |-> PyStr("content"),
     status |-> PyStr("sg_status_list"),
     assignee |-> PyStr("task_assignees"),
     labels |-> PyStr("tags"),
     duedate |-> PyStr("due_date"),
     timeoriginalestimate |-> PyStr("est_in_mins"),
     priority |-> PyStr("sg_priority"),
     customfield_10400 |-> PyStr("sg_done"),
     customfield_10500 |-> PyStr("sg_url"),
     customfield_10600 |-> PyStr("sg_locked"),
     customfield_10700 |-> PyStr("sg_unknown"),
     comment |-> PyNone]

get_shotgun_entity_field_for_issue_field(jira_field_id) ==
    IF jira_field_id.k = "str" /\ jira_field_id.s \in DOMAIN JiraToShotgunFields
    THEN JiraToShotgunFields[jira_field_id.s] ELSE PyNone

\* self.jira.get_jira_issue_field_id(name): the id of the Jira field with
\* this name.
get_jira_issue_field_id(name) ==
    CASE name = PyStr("Summary") -> PyStr("summary")
      [] name = PyStr("Status") -> PyStr("status")
      [] OTHER -> PyNone

\* The strings of the model int() takes, which are the ones made of digits.
IntStrings == {"0", "7", "42", "90"}

\* int(s) for a string int() takes.
ToInt(s) ==
    CASE s = "0" -> 0
      [] s = "7" -> 7
      [] s = "42" -> 42
      [] s = "90" -> 90

\* The strings of the model which are given as dates, each with the texts
\* between its "-": none for a string which is not made of three such texts.
DateParts ==
    ("2021-02-28" :> <<"2021", "02", "28">>) @@
    ("2021-02-29" :> <<"2021", "02", "29">>) @@
    ("2021-02-30" :> <<"2021", "02", "30">>) @@
    ("2020-02-29" :> <<"2020", "02", "29">>) @@
    ("1900-02-29" :> <<"1900", "02", "29">>) @@
    ("2000-02-29" :> <<"2000", "02", "29">>) @@
    ("2019-01-31" :> <<"2019", "01", "31">>) @@
    ("2021-04-31" :> <<"2021", "04", "31">>) @@
    ("2021-12-31" :> <<"2021", "12", "31">>) @@
    ("2021-13-01" :> <<"2021", "13", "01">>) @@
    ("2021-00-10" :> <<"2021", "00", "10">>) @@
    ("2021-02-00" :> <<"2021", "02", "00">>) @@
    ("2021-2-8" :> <<"2021", "2", "8">>) @@
    ("2021-02- 8" :> <<"2021", "02", " 8">>) @@
    ("21-02-28" :> <<"21", "02", "28">>) @@
    ("28-02-2021" :> <<"28", "02", "2021">>) @@
    ("2019-01-31 00:00:00.0" :> <<"2019", "01", "31 00:00:00.0">>) @@
    ("2021/02/28" :> <<>>) @@
    ("abc" :> <<>>)

DateTexts == DOMAIN DateParts

\* The texts the %Y directive of strptime matches, four digits, with the
\* year each gives.
YearDirective ==
    ("2021" :> 2021) @@ ("2020" :> 2020) @@ ("2019" :> 2019) @@
    ("2000" :> 2000) @@ ("1900" :> 1900)

\* The texts the %m directive matches, `1[0-2]|0[1-9]|[1-9]`, with the
\* month each gives.
MonthDirective ==
    ("01" :> 1) @@ ("02" :> 2) @@ ("04" :> 4) @@ ("12" :> 12) @@ ("2" :> 2)

\* The texts the %d directive matches, `3[0-1]|[1-2]\d|0[1-9]|[1-9]| [1-9]`,
\* with the day each gives.
DayDirective ==
    ("01" :> 1) @@ ("10" :> 10) @@ ("28" :> 28) @@ ("29" :> 29) @@ ("30" :> 30) @@
    ("31" :> 31) @@ ("8" :> 8) @@ (" 8" :> 8)

IsLeapYear(year) == year % 4 = 0 /\ (year % 100 # 0 \/ year % 400 = 0)

DaysInMonth(year, month) ==
    CASE month = 2 -> IF IsLeapYear(year) THEN 29 ELSE 28
      [] month \in {4, 6, 9, 11} -> 30
      [] OTHER -> 31

\* datetime.datetime.strptime(value, "%Y-%m-%d"): ValueError when the string
\* does not match the format as a whole or when the day is not a day of the
\* month.
strptime(value) ==
    LET parts == DateParts[value] IN
    IF parts = <<>> THEN Raise("ValueError")
    ELSE IF parts[1] \notin DOMAIN YearDirective \/ parts[2] \notin DOMAIN MonthDirective
            \/ parts[3] \notin DOMAIN DayDirective
    THEN Raise("ValueError")
    ELSE IF DayDirective[parts[3]]
                > DaysInMonth(YearDirective[parts[1]], MonthDirective[parts[2]])
    THEN Raise("ValueError")
    ELSE Return(<<YearDirective[parts[1]], MonthDirective[parts[2]],
                  DayDirective[parts[3]]>>)

\* The strings of the model strptime(value, "%Y-%m-%d") takes.
DateStrings == {value \in DateTexts : strptime(value).k = "return"}

\* set(s.split(" ")) on the strings of the model with names in them.
SplitWords(s) ==
    CASE s = "High" -> {"High"}
      [] s = "Low" -> {"Low"}
      [] s = "Urgent" -> {"Urgent"}
      [] s = "High Low" -> {"High", "Low"}
      [] s = "Low Urgent" -> {"Low", "Urgent"}

\* self.jira.user(key): the Jira user with this key.
jira_user(key) ==
    LET emails == {e \in DOMAIN jira.users : PyStr(jira.users[e]) = key} IN
    IF emails = {} THEN Raise("JIRAError")
    ELSE Return(Resource(MkDict([name |-> key,
                                 emailAddress |-> PyStr(CHOOSE e \in emails : TRUE)])))

\* self.shotgun.find_one("HumanUser", [["email", "is", email]], ...)
find_one_human_user(email) ==
    IF email.k = "str" /\ email.s \in DOMAIN shotgun.users
    THEN PyDict(shotgun.users[email.s]) ELSE PyNone

\* self.shotgun.match_entity_by_name(name, entity_types, project): None when
\* no Entity of these types has this name.
match_entity_by_name(name, entity_types, project) ==
    LET matching == {e \in DOMAIN shotgun.entities :
                        /\ InList(PyStr(e[1]), entity_types)
                        /\ "name" \in DOMAIN shotgun.entities[e]
                        /\ Lower(shotgun.entities[e].name.s) = Lower(name)}
    IN IF matching = {} THEN PyNone
       ELSE LET e == shotgun.entities[CHOOSE m \in matching : TRUE]
            IN MkDict([type |-> e.type, id |-> e.id, name |-> e.name])

\* `a["type"] == b["type"] and a["id"] == b["id"]`
SameEntity(a, b) == a.d["type"] = b.d["type"] /\ a.d["id"] = b.d["id"]

\* `del list[i]`, i from 1.
DeleteAt(l, i) == [j \in 1..(Len(l) - 1) |-> IF j < i THEN l[j] ELSE l[j + 1]]

\* The Shotgun user of the Jira user who was assigned the Issue: None when
\* Shotgun has no user with the email address.
from_sg_user(from_assignee) ==
    LET user == jira_user(from_assignee) IN
    IF user.k = "raise" THEN user
    ELSE Return(find_one_human_user(user.v.raw.d["emailAddress"]))

\* The Shotgun user of the assignee of the Issue.
to_sg_user(jira_issue) ==
    LET user == jira_issue.d["fields"].d["assignee"] IN
    IF user.k # "dict" THEN Raise("TypeError")
    ELSE IF ~HasKey(user, "emailAddress") THEN Raise("KeyError")
    ELSE Return(find_one_human_user(user.d["emailAddress"]))

\* The assignment without the user, the first time it is in the list.
assignment_removed(current_sg_assignment, sg_user) ==
    IF current_sg_assignment.k # "list" THEN Raise("TypeError")
    ELSE LET l == current_sg_assignment.l
             found == {i \in DOMAIN l : SameEntity(l[i], sg_user)}
         IN IF found = {} THEN Return(current_sg_assignment)
            ELSE Return(PyList(DeleteAt(l, CHOOSE i \in found : \A j \in found : i <= j)))

\* The user added to the assignment whether it is in the list or not.
assignment_added_mut(current_sg_assignment, sg_user) ==
    Return(ListAppend(current_sg_assignment, sg_user))

\* The assignment with the user, if it is not in the list.
assignment_added(current_sg_assignment, sg_user) ==
    IF current_sg_assignment.k # "list" THEN Raise("TypeError")
    ELSE IF \E i \in DOMAIN current_sg_assignment.l :
                SameEntity(current_sg_assignment.l[i], sg_user)
    THEN Return(current_sg_assignment)
    ELSE Return(ListAppend(current_sg_assignment, sg_user))

\* The assignment of a multi entity field: ret is the outcome and cur the
\* list of the Entity, which is changed in place, after the call.
multi_entity_assignment(current_sg_assignment, jira_issue, change) ==
    LET Outcome(cur, added) ==
            [ret |-> added, cur |-> IF added.k = "raise" THEN cur ELSE added.v]
        Added(cur, to_user) ==
            IF to_user.k = "raise" THEN [ret |-> to_user, cur |-> cur]
            ELSE IF ~Truthy(to_user.v) THEN [ret |-> Raise("InvalidJiraValue"), cur |-> cur]
            ELSE Outcome(cur, assignment_added(cur, to_user.v))
        To(removed) ==
            IF removed.k = "raise" THEN [ret |-> removed, cur |-> current_sg_assignment]
            ELSE IF ~Truthy(change.d["to"]) THEN [ret |-> removed, cur |-> removed.v]
            ELSE Added(removed.v, to_sg_user(jira_issue))
        Removed(from_user) ==
            IF from_user.k = "raise" THEN To(from_user)
            ELSE IF ~Truthy(from_user.v) THEN To(Return(current_sg_assignment))
            ELSE To(assignment_removed(current_sg_assignment, from_user.v))
    IN IF Truthy(change.d["from"]) THEN Removed(from_sg_user(change.d["from"]))
       ELSE Removed(Return(PyNone))

\* The assignment of an entity field: the Entity is left as it is.
entity_assignment(current_sg_assignment, jira_issue, change) ==
    LET Set(to_user) ==
            IF to_user.k = "raise" THEN to_user
            ELSE IF ~Truthy(to_user.v) THEN Raise("InvalidJiraValue")
            ELSE Return(to_user.v)
        To(cleared) ==
            IF ~(Truthy(change.d["to"]) /\ ~Truthy(cleared)) THEN Return(cleared)
            ELSE Set(to_sg_user(jira_issue))
        Cleared(from_user) ==
            IF from_user.k = "raise" THEN from_user
            ELSE IF ~Truthy(from_user.v) THEN To(current_sg_assignment)
            ELSE IF current_sg_assignment.k # "dict" THEN Raise("TypeError")
            ELSE IF SameEntity(current_sg_assignment, from_user.v) THEN To(PyNone)
            ELSE To(current_sg_assignment)
    IN IF Truthy(change.d["from"]) THEN Cleared(from_sg_user(change.d["from"]))
       ELSE Cleared(Return(PyNone))

\* The outcome of the call, the Entity after the call, and whether the value
\* returned is the list the Entity holds for the field.
get_shotgun_assignment_from_jira_issue_change(shotgun_entity, shotgun_field, shotgun_field_schema, jira_issue, change) ==
    LET Unchanged(r) == [ret |-> r, sg_entity |-> shotgun_entity, same |-> FALSE]
        InPlace(r) ==
            [ret |-> r.ret,
             sg_entity |-> IF HasKey(shotgun_entity, shotgun_field)
                           THEN PyDict([shotgun_entity.d EXCEPT ![shotgun_field] = r.cur])
                           ELSE shotgun_entity,
             same |-> r.ret.k = "return" /\ r.ret.v.k = "list"]
    IN
    IF shotgun_field_schema.d["data_type"].d["value"]
            \notin {PyStr("multi_entity"), PyStr("entity")}
    THEN Unchanged(Raise("ValueError"))
    ELSE IF ~InList(PyStr("HumanUser"),
                    shotgun_field_schema.d["properties"].d["valid_types"].d["value"])
    THEN Unchanged(Raise("ValueError"))
    ELSE IF shotgun_field_schema.d["data_type"].d["value"] = PyStr("multi_entity")
    THEN InPlace(multi_entity_assignment(Get(shotgun_entity, shotgun_field),
                                         jira_issue, change))
    ELSE Unchanged(entity_assignment(Get(shotgun_entity, shotgun_field), jira_issue, change))

\* `format % value` for a value which is not a tuple: the value is the one
\* argument of the format, and TypeError is raised when the format does not
\* have one specifier.
percent_format(specifiers, value) ==
    IF specifiers # 1 THEN Raise("TypeError") ELSE Return(PyStr("formatted"))

\* The schema once `all_allowed.append(value)` is done.
schema_with_valid_value(shotgun_field_schema, value) ==
    LET properties == shotgun_field_schema.d["properties"]
        all_allowed == properties.d["valid_values"].d["value"]
    IN PyDict([shotgun_field_schema.d EXCEPT !["properties"] =
            PyDict([properties.d EXCEPT !["valid_values"] =
                MkDict([value |-> ListAppend(all_allowed, value)])])])

\* The value of a list field when no valid value matches it: the value is
\* added to the valid values of the schema, a message is formatted for the
\* log, the schema is updated in Shotgun and the cached schema is cleared.
new_list_value(shotgun_entity, shotgun_field, shotgun_field_schema, value) ==
    LET Updated(schema, message) ==
            IF message.k = "raise"
            THEN [ret |-> message, schema |-> schema, calls |-> <<>>]
            ELSE [ret |-> Return(value), schema |-> schema,
                  calls |-> <<[call |-> "schema_field_update",
                               type |-> shotgun_entity.d["type"],
                               field |-> shotgun_field,
                               valid_values |-> schema.d["properties"].d["valid_values"].d["value"]],
                              [call |-> "clear_cached_field_schema",
                               type |-> shotgun_entity.d["type"]]>>]
        Logged(schema) ==
            Updated(schema,
                    percent_format(3, schema.d["properties"].d["valid_values"].d["value"]))
    IN Logged(schema_with_valid_value(shotgun_field_schema, value))

\* The value of a list field: the valid value which is the Jira value but
\* for the case, if there is one.
list_value(shotgun_entity, shotgun_field, shotgun_field_schema, value) ==
    LET Matched(all_allowed, matching) ==
            IF matching = {}
            THEN new_list_value(shotgun_entity, shotgun_field, shotgun_field_schema, value)
            ELSE [ret |-> Return(all_allowed.l[CHOOSE i \in matching :
                                                \A j \in matching : i <= j]),
                  schema |-> shotgun_field_schema, calls |-> <<>>]
        Allowed(all_allowed) ==
            Matched(all_allowed, {i \in DOMAIN all_allowed.l :
                                    Lower(value.s) = Lower(all_allowed.l[i].s)})
    IN Allowed(shotgun_field_schema.d["properties"].d["valid_values"].d["value"])

\* The Shotgun status whose Jira status is the string, the case included.
status_list_value_mut(value) ==
    LET Matched(codes) ==
            IF codes = {} THEN Raise("InvalidJiraValue")
            ELSE Return(PyStr(CHOOSE sg_code \in codes : TRUE))
    IN Matched({sg_code \in DOMAIN sg_jira_statuses_mapping :
                    value.s = sg_jira_statuses_mapping[sg_code]})

\* The Shotgun status of a Jira status.
status_list_value(value) ==
    LET Matched(codes) ==
            IF codes = {} THEN Raise("InvalidJiraValue")
            ELSE Return(PyStr(CHOOSE sg_code \in codes : TRUE))
    IN Matched({sg_code \in DOMAIN sg_jira_statuses_mapping :
                    Lower(value.s) = Lower(sg_jira_statuses_mapping[sg_code])})

\* The loop on a copy of the list for a removed name: the entry at the place
\* of an entry of the copy with the name is deleted from the list.
RECURSIVE remove_matching_names(_, _, _, _)
remove_matching_names(removed, copy, i, current_sg_value) ==
    IF i > Len(copy) THEN [cur |-> current_sg_value, exc |-> ""]
    ELSE IF Lower(removed) = Lower(copy[i].d["name"].s)
    THEN IF i > Len(current_sg_value) THEN [cur |-> current_sg_value, exc |-> "IndexError"]
         ELSE remove_matching_names(removed, copy, i + 1, DeleteAt(current_sg_value, i))
    ELSE remove_matching_names(removed, copy, i + 1, current_sg_value)

\* The loop on the removed names, a set: the names are taken in any order.
RECURSIVE remove_names(_, _)
remove_names(removed_list, current_sg_value) ==
    LET Rest(removed, one) ==
            IF one.exc # "" THEN one
            ELSE remove_names(removed_list \ {removed}, one.cur)
        Removed(removed) ==
            Rest(removed, remove_matching_names(removed, current_sg_value, 1,
                                                current_sg_value))
    IN IF removed_list = {} THEN [cur |-> current_sg_value, exc |-> ""]
       ELSE Removed(CHOOSE name \in removed_list : TRUE)

\* The loop on the added names: the Entity with the name is added when the
\* list has no entry with the name and Shotgun has such an Entity.
RECURSIVE add_names(_, _, _, _)
add_names(added_list, current_sg_value, allowed_entities, project) ==
    LET Matched(added, sg_value) ==
            add_names(added_list \ {added},
                      IF ~Truthy(sg_value) THEN current_sg_value
                      ELSE Append(current_sg_value, sg_value),
                      allowed_entities, project)
        Added(added) ==
            IF \E i \in DOMAIN current_sg_value :
                    Lower(added) = Lower(current_sg_value[i].d["name"].s)
            THEN add_names(added_list \ {added}, current_sg_value, allowed_entities, project)
            ELSE Matched(added, match_entity_by_name(added, allowed_entities, project))
    IN IF added_list = {} THEN current_sg_value
       ELSE Added(CHOOSE name \in added_list : TRUE)

\* self.shotgun.consolidate_entity(shotgun_entity, fields=...) for an Entity
\* which holds the fields: the Entity itself, or the Entity as Shotgun has
\* it.
consolidate_entity_fields(shotgun_entity) ==
    IF shotgun.consolidate = "same" /\ Truthy(consolidate_entity(shotgun_entity))
    THEN shotgun_entity ELSE consolidate_entity(shotgun_entity)

\* The value of a multi entity field: ret is the outcome and cur the list
\* of the consolidated Entity, which is changed in place, after the call.
multi_entity_value(shotgun_entity, shotgun_field, shotgun_field_schema, change) ==
    LET allowed_entities == shotgun_field_schema.d["properties"].d["valid_types"].d["value"]
        old_list == IF Truthy(change.d["fromString"]) THEN SplitWords(change.d["fromString"].s)
                    ELSE {}
        new_list == IF Truthy(change.d["toString"]) THEN SplitWords(change.d["toString"].s)
                    ELSE {}
        Outcome(value) == [ret |-> Return(value), cur |-> value]
        Added(consolidated, removed) ==
            IF removed.exc # "" THEN [ret |-> Raise(removed.exc), cur |-> PyList(removed.cur)]
            ELSE IF new_list \ old_list # {} /\ ~HasKey(consolidated, "project")
            THEN [ret |-> Raise("KeyError"), cur |-> PyList(removed.cur)]
            ELSE Outcome(PyList(add_names(new_list \ old_list, removed.cur, allowed_entities,
                                          Get(consolidated, "project"))))
        Current(consolidated) ==
            IF ~Truthy(consolidated) THEN [ret |-> Raise("RuntimeError"), cur |-> PyNone]
            ELSE IF ~HasKey(consolidated, shotgun_field)
            THEN [ret |-> Raise("KeyError"), cur |-> PyNone]
            ELSE IF consolidated.d[shotgun_field].k # "list"
            THEN [ret |-> IF old_list \ new_list # {} \/ new_list \ old_list # {}
                          THEN Raise("TypeError")
                          ELSE Return(consolidated.d[shotgun_field]),
                  cur |-> consolidated.d[shotgun_field]]
            ELSE Added(consolidated,
                       remove_names(old_list \ new_list, consolidated.d[shotgun_field].l))
    IN Current(consolidate_entity_fields(shotgun_entity))

\* The value of a date field.
date_value(value) ==
    IF ~Truthy(value) THEN Return(PyNone)
    ELSE IF value.k # "str" THEN Raise("TypeError")
    ELSE IF strptime(value.s).k = "raise" THEN Raise("InvalidJiraValue")
    ELSE Return(value)

\* The value of a duration or number field.
number_value(value) ==
    IF value = PyNone THEN Return(PyNone)
    ELSE IF value.s \notin IntStrings THEN Raise("InvalidJiraValue")
    ELSE Return(PyInt(ToInt(value.s)))

\* The outcome of the call, the Entity and the schema of the field after the
\* call, and whether the value returned is the list the Entity holds for the
\* field.
get_shotgun_value_from_jira_issue_change(shotgun_entity, shotgun_field, shotgun_field_schema, change, jira_value) ==
    LET data_type == shotgun_field_schema.d["data_type"].d["value"]
        Unchanged(r) == [ret |-> r, sg_entity |-> shotgun_entity,
                         schema |-> shotgun_field_schema, same |-> FALSE,
                         calls |-> <<>>]
        Listed(r) ==
            [ret |-> r.ret, sg_entity |-> shotgun_entity, schema |-> r.schema,
             same |-> FALSE, calls |-> r.calls]
        InPlace(r) ==
            [ret |-> r.ret,
             sg_entity |-> IF shotgun.consolidate = "same" /\ r.cur # PyNone
                           THEN PyDict([shotgun_entity.d EXCEPT ![shotgun_field] = r.cur])
                           ELSE shotgun_entity,
             schema |-> shotgun_field_schema,
             same |-> /\ shotgun.consolidate = "same"
                      /\ r.ret.k = "return"
                      /\ r.ret.v.k = "list",
             calls |-> <<>>]
    IN
    CASE data_type = PyStr("text") -> Unchanged(Return(change.d["toString"]))
      [] data_type = PyStr("list") ->
            IF ~Truthy(change.d["toString"]) THEN Unchanged(Return(PyStr("")))
            ELSE Listed(list_value(shotgun_entity, shotgun_field, shotgun_field_schema,
                                   change.d["toString"]))
      [] data_type = PyStr("status_list") ->
            IF ~Truthy(change.d["toString"]) THEN Unchanged(Return(PyNone))
            ELSE Unchanged(status_list_value(change.d["toString"]))
      [] data_type = PyStr("multi_entity") ->
            InPlace(multi_entity_value(shotgun_entity, shotgun_field,
                                       shotgun_field_schema, change))
      [] data_type = PyStr("date") -> Unchanged(date_value(change.d["to"]))
      [] data_type \in {PyStr("duration"), PyStr("number")} ->
            Unchanged(number_value(change.d["toString"]))
      [] data_type = PyStr("checkbox") ->
            Unchanged(Return(PyBool(Truthy(change.d["toString"]))))
      [] OTHER -> Unchanged(Raise("ValueError"))

\* The call for a Shotgun field which can be edited.
editable_field_sync_value_of_change(shotgun_entity, jira_issue, jira_field_id, shotgun_field, shotgun_field_schema, change) ==
    LET WithField(r, schema) ==
            [ret |-> IF r.ret.k = "raise" THEN r.ret ELSE Return(<<shotgun_field, r.ret.v>>),
             sg_entity |-> r.sg_entity, schema |-> schema, same |-> r.same]
        Value(r) == WithField(r, r.schema)
    IN
    IF jira_field_id = PyStr("assignee")
    THEN WithField(get_shotgun_assignment_from_jira_issue_change(shotgun_entity,
                        shotgun_field.s, shotgun_field_schema, jira_issue, change),
                   shotgun_field_schema)
    ELSE IF ~HasKey(jira_issue.d["fields"], jira_field_id.s)
    THEN [ret |-> Raise("KeyError"), sg_entity |-> shotgun_entity,
          schema |-> shotgun_field_schema, same |-> FALSE]
    ELSE Value(get_shotgun_value_from_jira_issue_change(shotgun_entity, shotgun_field.s,
                    shotgun_field_schema, change, jira_issue.d["fields"].d[jira_field_id.s]))

\* The outcome of the call: the Shotgun field and its value, or the
\* exception raised; the Entity and the schema of the field after the call.
get_shotgun_entity_field_sync_value(shotgun_entity, jira_issue, jira_field_id, change) ==
    LET Unchanged(r) == [ret |-> r, sg_entity |-> shotgun_entity, schema |-> PyNone,
                         same |-> FALSE]
        Schema(shotgun_field, shotgun_field_schema) ==
            IF ~Truthy(shotgun_field_schema) THEN Unchanged(Raise("ValueError"))
            ELSE IF ~Truthy(shotgun_field_schema.d["editable"].d["value"])
            THEN Unchanged(Return(<<PyNone, PyNone>>))
            ELSE editable_field_sync_value_of_change(shotgun_entity, jira_issue,
                    jira_field_id, shotgun_field, shotgun_field_schema, change)
        Field(shotgun_field) ==
            IF ~Truthy(shotgun_field) THEN Unchanged(Return(<<PyNone, PyNone>>))
            ELSE Schema(shotgun_field,
                        get_field_schema(shotgun_entity.d["type"].s, shotgun_field.s))
    IN Field(get_shotgun_entity_field_for_issue_field(jira_field_id))

----------------------------------------------------------------------------
(* process_jira_event                                                       *)

shotgun_data_after_mut(shotgun_data, outcome) ==
    IF outcome.k = "raise" THEN EmptyDict
    ELSE IF Truthy(outcome.v[1])
    THEN DictUpdate(shotgun_data, (outcome.v[1].s :> outcome.v[2]))
    ELSE shotgun_data

\* shotgun_data once a change is treated: it holds the value for the field
\* when a field is returned, and is left as it is when no field is returned
\* or when an InvalidJiraValue is caught.
shotgun_data_after(shotgun_data, outcome) ==
    IF outcome.k = "return" /\ Truthy(outcome.v[1])
    THEN DictUpdate(shotgun_data, (outcome.v[1].s :> outcome.v[2]))
    ELSE shotgun_data

\* The fields for which shotgun_data holds the very list the Entity holds.
same_after(same, r) ==
    IF r.ret.k = "return" /\ Truthy(r.ret.v[1])
    THEN IF r.same THEN same \cup {r.ret.v[1].s} ELSE same \ {r.ret.v[1].s}
    ELSE same

caught_by_loop_mut(outcome) == outcome.k = "raise"

\* The exceptions the loop on the changes catches.
caught_by_loop(outcome) == outcome.k = "raise" /\ outcome.exc = "InvalidJiraValue"

\* The changes of the event.
event_changes(event) == event.d["changelog"].d["items"].l

\* The Jira field id of a change.
change_field_id(change) ==
    IF Truthy(Get(change, "fieldId")) THEN change.d["fieldId"]
    ELSE get_jira_issue_field_id(change.d["field"])

\* The start of process_jira_event, up to the loop on the changes: the
\* outcome when the call ends there, else the Entity retrieved from Shotgun.
process_jira_event_start(resource_type, resource_id, event) ==
    LET jira_issue == event.d["issue"]
        fields == jira_issue.d["fields"]
        issue_type == fields.d["issuetype"]
        shotgun_id == Get(fields, jira_shotgun_id_field)
        shotgun_type == Get(fields, jira_shotgun_type_field)
    IN
    IF shotgun_id.k # "str" THEN [ret |-> Raise("AttributeError"), sg_entity |-> PyNone]
    ELSE IF shotgun_id.s \notin IntStrings
    THEN [ret |-> Raise("ValueError"), sg_entity |-> PyNone]
    ELSE LET sg_entity == consolidate_entity(
                MkDict([type |-> shotgun_type, id |-> PyInt(ToInt(shotgun_id.s))]))
         IN IF ~Truthy(sg_entity) THEN [ret |-> Return(PyBool(FALSE)), sg_entity |-> PyNone]
            ELSE IF ~HasKey(issue_type, "name")
            THEN [ret |-> Raise("KeyError"), sg_entity |-> PyNone]
            ELSE [ret |-> PyNone, sg_entity |-> sg_entity]

\* The schema of a Shotgun field.
ShotgunFieldSchema(data_type, editable, valid_types, valid_values) ==
    MkDict([data_type |-> MkDict([value |-> PyStr(data_type)]),
            editable |-> MkDict([value |-> PyBool(editable)]),
            properties |-> MkDict([
                valid_types |-> IF valid_types = Absent THEN Absent
                                ELSE MkDict([value |-> valid_types]),
                valid_values |-> IF valid_values = Absent THEN Absent
                                 ELSE MkDict([value |-> valid_values])])])

\* The schemas of the fields of a Shotgun Task: the assignees are held by a
\* multi entity field or by an entity field, and Shotgun does not know
\* sg_unknown.
TaskFieldSchemas(assignee_type) ==
    [content |-> ShotgunFieldSchema("text", TRUE, Absent, Absent),
     sg_status_list |-> ShotgunFieldSchema("status_list", TRUE, Absent, Absent),
     task_assignees |-> ShotgunFieldSchema(assignee_type, TRUE,
                                           PyList(<<PyStr("HumanUser")>>), Absent),
     tags |-> ShotgunFieldSchema("multi_entity", TRUE, PyList(<<PyStr("Tag")>>), Absent),
     due_date |-> ShotgunFieldSchema("date", TRUE, Absent, Absent),
     est_in_mins |-> ShotgunFieldSchema("number", TRUE, Absent, Absent),
     sg_priority |-> ShotgunFieldSchema("list", TRUE, Absent,
                                        PyList(<<PyStr("High"), PyStr("Low")>>)),
     sg_done |-> ShotgunFieldSchema("checkbox", TRUE, Absent, Absent),
     sg_url |-> ShotgunFieldSchema("url", TRUE, Absent, Absent),
     sg_locked |-> ShotgunFieldSchema("text", FALSE, Absent, Absent)]

SgAl == MkDict([type |-> PyStr("HumanUser"), id |-> PyInt(1), name |-> PyStr("Al")])
SgBo == MkDict([type |-> PyStr("HumanUser"), id |-> PyInt(3), name |-> PyStr("Bo")])
SgTagHigh == MkDict([type |-> PyStr("Tag"), id |-> PyInt(5), name |-> PyStr("High")])

\* The Shotgun users find_one retrieves from their email address.
SgHumanUsers ==
    ("al@x.io" :> [type |-> PyStr("HumanUser"), id |-> PyInt(1),
                   name |-> PyStr("Al"), email |-> PyStr("al@x.io")]) @@
    ("bo@x.io" :> [type |-> PyStr("HumanUser"), id |-> PyInt(3),
                   name |-> PyStr("Bo"), email |-> PyStr("bo@x.io")])

\* The Entities of Shotgun: the Task the Issue is linked to and two tags.
TaskEntities(assignee_type) ==
    (<<"Task", 42>> :> [type |-> PyStr("Task"), id |-> PyInt(42),
                        content |-> PyStr("Old"),
                        task_assignees |-> IF assignee_type = "multi_entity"
                                           THEN PyList(<<SgAl, SgBo>>) ELSE SgAl,
                        tags |-> PyList(<<SgTagHigh>>),
                        project |-> MkDict([type |-> PyStr("Project"), id |-> PyInt(7)])]) @@
    (<<"Tag", 5>> :> [type |-> PyStr("Tag"), id |-> PyInt(5), name |-> PyStr("High")]) @@
    (<<"Tag", 6>> :> [type |-> PyStr("Tag"), id |-> PyInt(6), name |-> PyStr("Low")])

\* The Jira users, by email address: Shotgun has no user for zed.
ProcessJiraUsers == ("al@x.io" :> "al") @@ ("bo@x.io" :> "bo") @@ ("zed@x.io" :> "zed")

\* A change of the changelog of an event.
Change(field, fieldId, from, to, fromString, toString) ==
    MkDict([field |-> PyStr(field), fieldId |-> fieldId, from |-> from, to |-> to,
            fromString |-> fromString, toString |-> toString])

\* The changes of the events: the name of the field only for the summary; a
\* status Shotgun has and one it has not; the Issue taken from al; the Issue
\* taken from bo and given to its assignee; a label replaced; a comment,
\* which is not synced; a field of a data type which is not supported.
ProcessChanges ==
    {Change("Summary", Absent, PyNone, PyNone, PyStr("Old"), PyStr("Fix it")),
     Change("status", PyStr("status"), PyStr("1"), PyStr("3"), PyStr("In Progress"), PyStr("Done")),
     Change("status", PyStr("status"), PyStr("1"), PyStr("9"), PyStr("In Progress"), PyStr("Bogus")),
     Change("assignee", PyStr("assignee"), PyStr("al"), PyNone, PyStr("Al"), PyNone),
     Change("assignee", PyStr("assignee"), PyStr("bo"), PyStr("zed"), PyStr("Bo"), PyStr("Zed")),
     Change("labels", PyStr("labels"), PyNone, PyNone, PyStr("High"), PyStr("Low")),
     Change("Comment", PyStr("comment"), PyNone, PyNone, PyNone, PyStr("Fix it")),
     Change("Link", PyStr("customfield_10500"), PyNone, PyNone, PyNone, PyStr("Fix it"))}

\* The number of changes of an event.
MaxChanges == 3

\* The Issue of an event.
ProcessIssue(issue_type, shotgun_id, assignee) ==
    MkDict([key |-> PyStr("KEY-1"),
            fields |-> PyDict(
                [f \in (DOMAIN JiraToShotgunFields \ {"comment"}) \cup
                       {"issuetype", jira_shotgun_id_field, jira_shotgun_type_field} |->
                    CASE f = "issuetype" -> issue_type
                      [] f = jira_shotgun_id_field -> shotgun_id
                      [] f = jira_shotgun_type_field -> PyStr("Task")
                      [] f = "assignee" -> assignee
                      [] OTHER -> PyNone])])

ProcessEvent(issue, changes) ==
    MkDict([webhookEvent |-> PyStr("jira:issue_updated"), issue |-> issue,
            changelog |-> MkDict([items |-> PyList(changes)])])

\* The type of the Issue and the Shotgun id it holds, for an Issue linked to
\* the Task and for the other ones.
LinkedIssue == <<MkDict([id |-> PyStr("10001"), name |-> PyStr("Task")]), PyStr("42")>>

OtherIssues ==
    {<<MkDict([id |-> PyStr("10001"), name |-> PyStr("Task")]), id>> :
        id \in {PyNone, PyStr("abc"), PyStr("7")}}
    \cup {<<MkDict([id |-> PyStr("10001")]), PyStr("42")>>}

ProcessInit ==
    /\ pc = "process"
    /\ \E assignee_type \in {"multi_entity", "entity"} :
       \E assignee \in {MkDict([name |-> PyStr("al"), emailAddress |-> PyStr("al@x.io")]),
                        MkDict([name |-> PyStr("zed"), emailAddress |-> PyStr("zed@x.io")])} :
        /\ \/ \E changes \in SeqsUpTo(ProcessChanges, MaxChanges) :
                args = [resource_type |-> "Issue", resource_id |-> "KEY-1",
                        event |-> ProcessEvent(ProcessIssue(LinkedIssue[1], LinkedIssue[2],
                                                            assignee), changes)]
           \/ \E issue \in OtherIssues : \E changes \in SeqsUpTo(ProcessChanges, 1) :
                args = [resource_type |-> "Issue", resource_id |-> "KEY-1",
                        event |-> ProcessEvent(ProcessIssue(issue[1], issue[2], assignee),
                                               changes)]
        /\ shotgun \in [entities : {TaskEntities(assignee_type)},
                        users : {SgHumanUsers},
                        schema : {TaskFieldSchemas(assignee_type)},
                        consolidate : {"same", "fresh"},
                        update_calls : {<<>>}]
    /\ jira = [users |-> ProcessJiraUsers]
    /\ ret = PyNone
    /\ locals = PyNone

\* process_jira_event, up to the loop on the changes.
ProcessJiraEvent ==
    /\ pc = "process"
    /\ \E start \in {process_jira_event_start(args.resource_type, args.resource_id,
                                              args.event)} :
          IF start.sg_entity = PyNone
          THEN /\ ret' = start.ret
               /\ pc' = "done"
               /\ UNCHANGED locals
          ELSE /\ locals' = [sg_entity |-> start.sg_entity, shotgun_data |-> EmptyDict,
                             same |-> {}, results |-> <<>>]
               /\ pc' = IF event_changes(args.event) = <<>> THEN "update" ELSE "change"
               /\ UNCHANGED ret
    /\ UNCHANGED <<args, jira, shotgun>>

\* One turn of the loop on the changes: an exception which is not caught
\* ends the call.
ProcessChange ==
    /\ pc = "change"
    /\ \E change \in {event_changes(args.event)[Len(locals.results) + 1]} :
       \E r \in {get_shotgun_entity_field_sync_value(locals.sg_entity, args.event.d["issue"],
                    change_field_id(change), change)} :
       \E shotgun_data \in {shotgun_data_after(locals.shotgun_data, r.ret)} :
       \E same \in {same_after(locals.same, r)} :
          /\ locals' = [sg_entity |-> r.sg_entity,
                        shotgun_data |-> [f \in DOMAIN shotgun_data |->
                                            IF f \in same THEN r.sg_entity.d[f]
                                            ELSE shotgun_data[f]],
                        same |-> same,
                        results |-> Append(locals.results, r.ret)]
          /\ shotgun' = IF r.schema = PyNone THEN shotgun
                        ELSE [shotgun EXCEPT !.schema[
                                get_shotgun_entity_field_for_issue_field(
                                    change_field_id(change)).s] = r.schema]
          /\ IF r.ret.k = "raise" /\ ~caught_by_loop(r.ret)
             THEN ret' = r.ret /\ pc' = "done"
             ELSE /\ UNCHANGED ret
                  /\ pc' = IF Len(locals.results) + 1 = Len(event_changes(args.event))
                           THEN "update" ELSE "change"
    /\ UNCHANGED <<args, jira>>

\* self.shotgun.update(type, id, data): the Entities of Shotgun once the
\* Entity holds the data, if Shotgun has the Entity.
shotgun_updated(entities, type, id, data) ==
    IF <<type.s, id.n>> \in DOMAIN entities
    THEN [entities EXCEPT ![<<type.s, id.n>>] = DictUpdate(@, data)]
    ELSE entities

update_needed_mut(shotgun_data) == TRUE

\* `if shotgun_data`
update_needed(shotgun_data) == DOMAIN shotgun_data # {}

\* The end of process_jira_event: Shotgun is updated if there is some data.
ProcessUpdate ==
    /\ pc = "update"
    /\ IF update_needed(locals.shotgun_data)
       THEN /\ shotgun' = [shotgun EXCEPT
                            !.update_calls =
                                Append(@, [type |-> locals.sg_entity.d["type"],
                                           id |-> locals.sg_entity.d["id"],
                                           data |-> locals.shotgun_data]),
                            !.entities =
                                shotgun_updated(@, locals.sg_entity.d["type"],
                                                locals.sg_entity.d["id"],
                                                locals.shotgun_data)]
            /\ ret' = Return(PyBool(TRUE))
       ELSE /\ ret' = Return(PyBool(FALSE))
            /\ UNCHANGED shotgun
    /\ pc' = "done"
    /\ UNCHANGED <<args, jira, locals>>

ProcessNext == ProcessJiraEvent \/ ProcessChange \/ ProcessUpdate

SpecProcess == ProcessInit /\ [][ProcessNext]_vars

\* The events with a change which can't be translated: the changes of the
\* other events and the change of a field Shotgun has no schema for; the
\* assignees held by a text field as well; the Task deleted from Shotgun
\* while the changes are treated.
FailureChanges ==
    ProcessChanges \cup
        {Change("Unknown", PyStr("customfield_10700"), PyNone, PyNone, PyNone, PyStr("Fix it"))}

\* The number of changes of these events.
MaxFailureChanges == 2

FailureInit ==
    /\ pc = "process"
    /\ \E assignee_type \in {"multi_entity", "entity", "text"} :
       \E assignee \in {MkDict([name |-> PyStr("al"), emailAddress |-> PyStr("al@x.io")]),
                        MkDict([name |-> PyStr("zed"), emailAddress |-> PyStr("zed@x.io")])} :
       \E changes \in SeqsUpTo(FailureChanges, MaxFailureChanges) :
        /\ args = [resource_type |-> "Issue", resource_id |-> "KEY-1",
                   event |-> ProcessEvent(ProcessIssue(LinkedIssue[1], LinkedIssue[2],
                                                       assignee), changes)]
        /\ shotgun \in [entities : {TaskEntities(assignee_type)},
                        users : {SgHumanUsers},
                        schema : {TaskFieldSchemas(assignee_type)},
                        consolidate : {"same", "fresh"},
                        update_calls : {<<>>}]
    /\ jira = [users |-> ProcessJiraUsers]
    /\ ret = PyNone
    /\ locals = PyNone

\* The Task is deleted from Shotgun after it was retrieved for the event.
EntityDeleted ==
    /\ pc = "change"
    /\ <<"Task", 42>> \in DOMAIN shotgun.entities
    /\ shotgun' = [shotgun EXCEPT !.entities =
                    [e \in DOMAIN shotgun.entities \ {<<"Task", 42>>} |->
                        shotgun.entities[e]]]
    /\ UNCHANGED <<pc, args, ret, jira, locals>>

FailureNext == ProcessNext \/ EntityDeleted

SpecFailure == FailureInit /\ [][FailureNext]_vars

\* An event delivered more than once: the Task holds one tag, or three
\* tags with two of the same name but for the case.
SgTagLow == MkDict([type |-> PyStr("Tag"), id |-> PyInt(6), name |-> PyStr("Low")])
SgTagHighToo == MkDict([type |-> PyStr("Tag"), id |-> PyInt(9), name |-> PyStr("high")])

RedeliveredTags == {<<SgTagHigh>>, <<SgTagHigh, SgTagHighToo, SgTagLow>>}

\* The number of changes of these events, and the number of times an event
\* is delivered again.
MaxRedeliveredChanges == 2
MaxRedeliveries == 1

RedeliverInit ==
    /\ pc = "process"
    /\ \E assignee_type \in {"multi_entity", "entity"} :
       \E assignee \in {MkDict([name |-> PyStr("al"), emailAddress |-> PyStr("al@x.io")]),
                        MkDict([name |-> PyStr("zed"), emailAddress |-> PyStr("zed@x.io")])} :
       \E tags \in RedeliveredTags :
       \E changes \in SeqsUpTo(ProcessChanges, MaxRedeliveredChanges) :
        /\ args = [resource_type |-> "Issue", resource_id |-> "KEY-1",
                   event |-> ProcessEvent(ProcessIssue(LinkedIssue[1], LinkedIssue[2],
                                                       assignee), changes)]
        /\ shotgun \in [entities : {[TaskEntities(assignee_type) EXCEPT
                                        ![<<"Task", 42>>].tags = PyList(tags)]},
                        users : {SgHumanUsers},
                        schema : {TaskFieldSchemas(assignee_type)},
                        consolidate : {"same", "fresh"},
                        update_calls : {<<>>},
                        deliveries : {<<>>}]
    /\ jira = [users |-> ProcessJiraUsers]
    /\ ret = PyNone
    /\ locals = PyNone

\* The event is delivered again, once it is processed: the outcome of the
\* call and the Task as Shotgun holds it then are kept.
Redeliver ==
    /\ pc = "done"
    /\ Len(shotgun.deliveries) < MaxRedeliveries
    /\ shotgun' = [shotgun EXCEPT !.deliveries =
                    Append(@, [ret |-> ret, task |-> shotgun.entities[<<"Task", 42>>]])]
    /\ pc' = "process"
    /\ ret' = PyNone
    /\ locals' = PyNone
    /\ UNCHANGED <<args, jira>>

RedeliverNext == ProcessNext \/ Redeliver

SpecRedeliver == RedeliverInit /\ [][RedeliverNext]_vars

----------------------------------------------------------------------------
(* The translation of the change of one Jira field, on its own.             *)

\* The tags a Task can hold: with two tags of the same name but for the
\* case as well.
TagLists ==
    {<<>>, <<SgTagHigh>>, <<SgTagLow>>, <<SgTagHigh, SgTagLow>>, <<SgTagLow, SgTagHigh>>,
     <<SgTagHigh, SgTagHighToo>>, <<SgTagHigh, SgTagHighToo, SgTagLow>>}

\* The assignment a Task can hold, in an entity field and in a multi entity
\* field.
EntityAssignments == {PyNone, SgAl, SgBo}
MultiEntityAssignments == {PyList(<<>>), PyList(<<SgAl>>), PyList(<<SgAl, SgBo>>)}

\* The Task with these tags and this assignment.
ValueTask(tags, assignment) ==
    [type |-> PyStr("Task"), id |-> PyInt(42), content |-> PyStr("Old"),
     task_assignees |-> assignment, tags |-> PyList(tags),
     project |-> MkDict([type |-> PyStr("Project"), id |-> PyInt(7)])]

\* The Entities of Shotgun: the Task and the tags.
ValueEntities(task) ==
    (<<"Task", 42>> :> task) @@
    (<<"Tag", 5>> :> [type |-> PyStr("Tag"), id |-> PyInt(5), name |-> PyStr("High")]) @@
    (<<"Tag", 6>> :> [type |-> PyStr("Tag"), id |-> PyInt(6), name |-> PyStr("Low")])

\* The names of the labels before and after a change.
LabelStrings ==
    {PyNone, PyStr("High"), PyStr("Low"), PyStr("Urgent"), PyStr("High Low"),
     PyStr("Low Urgent")}

\* The changes of a Jira field, for each Shotgun field and data type: the
\* tags, a date, a list of valid values, and the other data types.
ValueChanges ==
    [field : {"tags"}, schema : {ShotgunFieldSchema("multi_entity", TRUE,
                                    PyList(<<PyStr("Tag")>>), Absent)},
     change : {Change("labels", PyStr("labels"), PyNone, PyNone, from, to) :
                from \in LabelStrings, to \in LabelStrings}]
    \cup
    [field : {"due_date"}, schema : {ShotgunFieldSchema("date", TRUE, Absent, Absent)},
     change : {Change("duedate", PyStr("duedate"), PyNone, to, PyNone, toString) :
                to \in {PyNone, PyStr("")} \cup {PyStr(text) : text \in DateTexts},
                toString \in {PyNone, PyStr("2019-01-31 00:00:00.0")}}]
    \cup
    [field : {"sg_priority"},
     schema : {ShotgunFieldSchema("list", TRUE, Absent, valid_values) :
                valid_values \in {PyList(<<>>), PyList(<<PyStr("High"), PyStr("Low")>>)}},
     change : {Change("priority", PyStr("priority"), PyNone, PyNone, PyNone, toString) :
                toString \in {PyNone, PyStr(""), PyStr("High"), PyStr("high"),
                              PyStr("Low"), PyStr("Urgent")}}]
    \cup
    [field : {"sg_other"},
     schema : {ShotgunFieldSchema(data_type, TRUE, Absent, Absent) :
                data_type \in {"text", "status_list", "number", "duration", "checkbox",
                               "url"}},
     change : {Change("Other", PyStr("customfield_10400"), PyNone, PyNone, PyNone, toString) :
                toString \in {PyNone, PyStr(""), PyStr("Done"), PyStr("done"),
                              PyStr("Bogus"), PyStr("42"), PyStr("abc")}}]

\* The assignee of the Issue once it is given to a user.
IssueAssignee(to) ==
    CASE to = PyStr("al") -> MkDict([name |-> to, emailAddress |-> PyStr("al@x.io")])
      [] to = PyStr("bo") -> MkDict([name |-> to, emailAddress |-> PyStr("bo@x.io")])
      [] to = PyStr("zed") -> MkDict([name |-> to, emailAddress |-> PyStr("zed@x.io")])
      [] OTHER -> PyNone

\* The changes of the assignee of an Issue: from a user or none, to a user
\* or none.
AssigneeChanges ==
    {Change("assignee", PyStr("assignee"), from, to, PyNone, PyNone) :
        from \in {PyNone, PyStr("al"), PyStr("bo"), PyStr("zed")},
        to \in {PyNone, PyStr("al"), PyStr("bo"), PyStr("zed")}}

ValueInit ==
    /\ \/ /\ pc = "value"
          /\ \E v \in ValueChanges : \E tags \in TagLists :
                /\ (v.field # "tags") => tags = <<SgTagHigh>>
                /\ args = [shotgun_entity |-> PyDict(ValueTask(tags, PyNone)),
                           shotgun_field |-> v.field,
                           shotgun_field_schema |-> v.schema,
                           jira_issue |-> ProcessIssue(LinkedIssue[1], LinkedIssue[2], PyNone),
                           change |-> v.change]
          /\ shotgun \in [entities : {ValueEntities(args.shotgun_entity.d)},
                          users : {SgHumanUsers},
                          consolidate : IF args.shotgun_field = "tags"
                                        THEN {"same", "fresh"} ELSE {"same"}]
       \/ /\ pc = "assignment"
          /\ \E data_type \in {"entity", "multi_entity", "text"} :
             \E change \in AssigneeChanges :
             \E assignment \in (IF data_type = "multi_entity" THEN MultiEntityAssignments
                                ELSE EntityAssignments) :
                /\ args = [shotgun_entity |-> PyDict(ValueTask(<<SgTagHigh>>, assignment)),
                           shotgun_field |-> "task_assignees",
                           shotgun_field_schema |->
                                ShotgunFieldSchema(data_type, TRUE,
                                                   PyList(<<PyStr("HumanUser")>>), Absent),
                           jira_issue |-> ProcessIssue(LinkedIssue[1], LinkedIssue[2],
                                                       IssueAssignee(change.d["to"])),
                           change |-> change]
          /\ shotgun = [entities |-> ValueEntities(args.shotgun_entity.d),
                        users |-> SgHumanUsers, consolidate |-> "same"]
    /\ jira = [users |-> ProcessJiraUsers]
    /\ ret = PyNone
    /\ locals = PyNone

GetShotgunValueFromJiraIssueChange ==
    /\ pc = "value"
    /\ \E r \in {get_shotgun_value_from_jira_issue_change(args.shotgun_entity,
                    args.shotgun_field, args.shotgun_field_schema, args.change,
                    PyNone)} :
          /\ ret' = r.ret
          /\ locals' = [sg_entity |-> r.sg_entity, schema |-> r.schema, calls |-> r.calls]
    /\ pc' = "done"
    /\ UNCHANGED <<args, jira, shotgun>>

GetShotgunAssignmentFromJiraIssueChange ==
    /\ pc = "assignment"
    /\ \E r \in {get_shotgun_assignment_from_jira_issue_change(args.shotgun_entity,
                    args.shotgun_field, args.shotgun_field_schema, args.jira_issue,
                    args.change)} :
          /\ ret' = r.ret
          /\ locals' = [sg_entity |-> r.sg_entity, schema |-> args.shotgun_field_schema,
                        calls |-> <<>>]
    /\ pc' = "done"
    /\ UNCHANGED <<args, jira, shotgun>>

ValueNext == GetShotgunValueFromJiraIssueChange \/ GetShotgunAssignmentFromJiraIssueChange

SpecValue == ValueInit /\ [][ValueNext]_vars

----------------------------------------------------------------------------
(* Claims about the translation of the change of one Jira field.            *)

\* A string in the form YYYY-MM-DD which is the date of a day: four digits,
\* two digits from 01 to 12 and two digits from 01 to the last day of the
\* month.
IsoDate(text) ==
    /\ text \in DateTexts
    /\ DateParts[text] # <<>>
    /\ DateParts[text][1] \in {"1900", "2000", "2019", "2020", "2021"}
    /\ DateParts[text][2] \in {"01", "02", "04", "12"}
    /\ DateParts[text][3] \in {"01", "10", "28", "29", "30", "31"}
    /\ DayDirective[DateParts[text][3]]
            <= DaysInMonth(YearDirective[DateParts[text][1]],
                           MonthDirective[DateParts[text][2]])

\* C15: for a date field, the value of the change is returned as it is when
\* it is a date in the form YYYY-MM-DD, None is returned when it is empty,
\* and InvalidJiraValue is raised for any other value.
C15_DateValue ==
    (pc = "done" /\ args.shotgun_field = "due_date") =>
        /\ ~Truthy(args.change.d["to"]) => ret = Return(PyNone)
        /\ (Truthy(args.change.d["to"]) /\ IsoDate(args.change.d["to"].s)) =>
                ret = Return(args.change.d["to"])
        /\ (Truthy(args.change.d["to"]) /\ ~IsoDate(args.change.d["to"].s)) =>
                ret = Raise("InvalidJiraValue")

\* The names in the string of a change.
Tokens(string) == IF Truthy(string) THEN SplitWords(string.s) ELSE {}

RemovedTokens == Tokens(args.change.d["fromString"]) \ Tokens(args.change.d["toString"])

AddedTokens == Tokens(args.change.d["toString"]) \ Tokens(args.change.d["fromString"])

\* An Entity with one of these names, but for the case.
Named(entity, tokens) == \E token \in tokens : Lower(token) = Lower(entity.d["name"].s)

\* The tags of the Task which none of the removed names is the name of.
KeptTags ==
    LET Kept(entity) == ~Named(entity, RemovedTokens)
    IN SelectSeq(args.shotgun_entity.d["tags"].l, Kept)

\* The Entities Shotgun has for the added names which are not the name of
\* a tag which is kept.
AddedTags ==
    {match_entity_by_name(token,
            args.shotgun_field_schema.d["properties"].d["valid_types"].d["value"],
            args.shotgun_entity.d["project"]) :
        token \in {t \in AddedTokens :
                    /\ \A i \in DOMAIN KeptTags : ~Named(KeptTags[i], {t})
                    /\ match_entity_by_name(t,
                            args.shotgun_field_schema.d["properties"].d["valid_types"].d["value"],
                            args.shotgun_entity.d["project"]) # PyNone}}

\* C16: for a multi entity field, the names removed are the ones before the
\* change which are not after it, the names added the ones after it which
\* are not before it; nothing is raised for an added name Shotgun has no
\* Entity for, and the value returned is the current value without the
\* entries with a removed name, followed by the Entities found for the
\* added names which were not in it.
C16_MultiEntityValue ==
    (pc = "done" /\ args.shotgun_field = "tags") =>
        /\ ret.k = "return"
        /\ ret.v.k = "list"
        /\ Len(ret.v.l) = Len(KeptTags) + Cardinality(AddedTags)
        /\ SubSeq(ret.v.l, 1, Len(KeptTags)) = KeptTags
        /\ {ret.v.l[i] : i \in (Len(KeptTags) + 1)..Len(ret.v.l)} = AddedTags

\* The valid values of the list field, and whether one of them is the
\* string of the change but for the case.
ValidValues == args.shotgun_field_schema.d["properties"].d["valid_values"].d["value"]

MatchesValidValue ==
    \E i \in DOMAIN ValidValues.l :
        Lower(ValidValues.l[i].s) = Lower(args.change.d["toString"].s)

\* C18: for a list field and a string which is none of the valid values,
\* the schema of the field is updated in Shotgun with the valid values and
\* the string, the cached schema of the Entity type is cleared, and the
\* string is returned.
C18_NewListValueExtendsSchema ==
    (pc = "done" /\ args.shotgun_field = "sg_priority"
        /\ Truthy(args.change.d["toString"]) /\ ~MatchesValidValue) =>
            /\ ret = Return(args.change.d["toString"])
            /\ locals.calls =
                    <<[call |-> "schema_field_update", type |-> PyStr("Task"),
                       field |-> "sg_priority",
                       valid_values |-> ListAppend(ValidValues, args.change.d["toString"])],
                      [call |-> "clear_cached_field_schema", type |-> PyStr("Task")]>>

\* C19: for a list field and a string which is not empty, the string of the
\* change is returned, whether it is one of the valid values but for the
\* case or not.
C19_ListValueReturned ==
    (pc = "done" /\ args.shotgun_field = "sg_priority"
        /\ Truthy(args.change.d["toString"])) =>
            ret = Return(args.change.d["toString"])

\* The Shotgun user of the Jira user with this key: None when the key is
\* None or when Shotgun has no user with the email address of the Jira user.
ResolvedUser(key) ==
    LET emails == {e \in DOMAIN jira.users : PyStr(jira.users[e]) = key} IN
    IF emails = {} \/ ~(emails \subseteq DOMAIN shotgun.users) THEN PyNone
    ELSE PyDict(shotgun.users[CHOOSE e \in emails : TRUE])

\* The current assignment is the Shotgun user the Issue is taken from.
MatchesFromUser ==
    /\ args.shotgun_entity.d["task_assignees"] # PyNone
    /\ ResolvedUser(args.change.d["from"]) # PyNone
    /\ SameEntity(args.shotgun_entity.d["task_assignees"],
                  ResolvedUser(args.change.d["from"]))

\* C20: for an entity field, whatever the current value: None is returned
\* when the current value is the user the Issue is taken from and the Issue
\* is given to nobody; when there is no current value, or it was the user
\* the Issue is taken from, and the Issue is given to a user, the Shotgun
\* user with the email address of this user is returned, or InvalidJiraValue
\* is raised when there is none; no other exception is raised.
C20_EntityAssignment ==
    (pc = "done" /\ args.shotgun_field = "task_assignees"
        /\ args.shotgun_field_schema.d["data_type"].d["value"] = PyStr("entity")) =>
            /\ (MatchesFromUser /\ args.change.d["to"] = PyNone) => ret = Return(PyNone)
            /\ ((args.shotgun_entity.d["task_assignees"] = PyNone \/ MatchesFromUser)
                    /\ args.change.d["to"] # PyNone) =>
                    IF ResolvedUser(args.change.d["to"]) # PyNone
                    THEN ret = Return(ResolvedUser(args.change.d["to"]))
                    ELSE ret = Raise("InvalidJiraValue")
            /\ ret.k = "raise" => ret.exc = "InvalidJiraValue"

\* The list without the entries which are this Shotgun user.
WithoutUser(list, user) ==
    IF user = PyNone THEN list
    ELSE PyList(SelectSeq(list.l, LAMBDA entry : ~SameEntity(entry, user)))

\* The list with this Shotgun user, added at the end if it is not in it.
WithUser(list, user) ==
    IF \E i \in DOMAIN list.l : SameEntity(list.l[i], user) THEN list
    ELSE PyList(Append(list.l, user))

\* The change of the assignee was translated for a multi entity field.
MultiEntityAssigned ==
    /\ pc = "done" /\ args.shotgun_field = "task_assignees"
    /\ args.shotgun_field_schema.d["data_type"].d["value"] = PyStr("multi_entity")

C21_WitnessPresent ==
    /\ MultiEntityAssigned
    /\ args.shotgun_entity.d["task_assignees"] = PyList(<<SgAl, SgBo>>)
    /\ args.change.d["from"] = PyStr("zed") /\ args.change.d["to"] = PyStr("al")
    /\ ret = Return(PyList(<<SgAl, SgBo>>))

\* Shotgun has no user for the new assignee.
C21_WitnessInvalid ==
    /\ MultiEntityAssigned
    /\ args.change.d["from"] = PyStr("al") /\ args.change.d["to"] = PyStr("zed")
    /\ ret = Raise("InvalidJiraValue")

\* The places of the current tags which are, for a removed name, the first
\* tag with this name but for the case.
FirstNamedTags ==
    LET tags == args.shotgun_entity.d["tags"].l IN
    {i \in DOMAIN tags :
        \E token \in RemovedTokens :
            /\ Named(tags[i], {token})
            /\ \A j \in 1..(i - 1) : ~Named(tags[j], {token})}

\* The current tags without the first tag of each removed name.
TagsAfterRemoval ==
    LET tags == args.shotgun_entity.d["tags"].l
        RECURSIVE Kept(_)
        Kept(i) == IF i > Len(tags) THEN <<>>
                   ELSE IF i \in FirstNamedTags THEN Kept(i + 1)
                   ELSE <<tags[i]>> \o Kept(i + 1)
    IN Kept(1)

\* C22: for a multi entity field, nothing is raised by the removal of the
\* names, and the value returned starts with the current entries but, for
\* each removed name, the first entry with this name: the entries with
\* none of the removed names are all kept.
C22_FirstMatchRemoved ==
    (pc = "done" /\ args.shotgun_field = "tags") =>
        /\ ret.k = "return"
        /\ ret.v.k = "list"
        /\ Len(ret.v.l) >= Len(TagsAfterRemoval)
        /\ SubSeq(ret.v.l, 1, Len(TagsAfterRemoval)) = TagsAfterRemoval

\* The change was translated for a status list field.
StatusTranslated ==
    /\ pc = "done" /\ args.shotgun_field = "sg_other"
    /\ args.shotgun_field_schema.d["data_type"].d["value"] = PyStr("status_list")

\* The Shotgun statuses whose Jira status is the string of the change but
\* for the case.
MatchingStatuses ==
    {sg_code \in DOMAIN sg_jira_statuses_mapping :
        Lower(sg_jira_statuses_mapping[sg_code]) = Lower(args.change.d["toString"].s)}

\* C23: for a status list field, None is returned when the string of the
\* change is empty; otherwise a Shotgun status whose Jira status is the
\* string but for the case is returned, and InvalidJiraValue is raised when,
\* and only when, there is no such status.
C23_StatusListValue ==
    StatusTranslated =>
        IF ~Truthy(args.change.d["toString"]) THEN ret = Return(PyNone)
        ELSE IF MatchingStatuses = {} THEN ret = Raise("InvalidJiraValue")
        ELSE ret.k = "return" /\ ret.v.k = "str" /\ ret.v.s \in MatchingStatuses

\* The Jira status 'done' gave the Shotgun status of 'Done'.
C23_Witness ==
    /\ StatusTranslated
    /\ args.change.d["toString"] = PyStr("done")
    /\ ret = Return(PyStr("fin"))

\* No Shotgun status for the Jira status.
C23_WitnessInvalid ==
    /\ StatusTranslated
    /\ args.change.d["toString"] = PyStr("Bogus")
    /\ ret = Raise("InvalidJiraValue")

----------------------------------------------------------------------------
(* Claims about process_jira_event.                                         *)

\* The call went through the loop on the changes and returned.
ProcessCompleted == pc = "done" /\ ret.k = "return" /\ locals # PyNone

\* The result for a change holds a Shotgun field.
ReturnsField(result) == result.k = "return" /\ result.v[1] # PyNone

\* The result for a change is an InvalidJiraValue.
InvalidValue(result) == result.k = "raise" /\ result.exc = "InvalidJiraValue"

\* The Shotgun field of the i-th change of the event.
ChangeField(i) ==
    get_shotgun_entity_field_for_issue_field(change_field_id(event_changes(args.event)[i]))

\* The i-th change is the last one a value was returned for its field, and
\* no later change for the field was given up for an invalid value.
LastForField(i) ==
    \A m \in DOMAIN locals.results :
        (m > i /\ ChangeField(m) = ChangeField(i)) =>
            ~ReturnsField(locals.results[m]) /\ ~InvalidValue(locals.results[m])

\* C10: when the call returns, every change was treated and, for every
\* change given up for an InvalidJiraValue, every other change a Shotgun
\* field was returned for, before or after it, has its field in the data of
\* the one update of Shotgun, with the value returned for the last change of
\* the field.
C10_InvalidValueNeverBlocks ==
    ProcessCompleted =>
        /\ Len(locals.results) = Len(event_changes(args.event))
        /\ \A j \in DOMAIN locals.results : InvalidValue(locals.results[j]) =>
            \A i \in DOMAIN locals.results \ {j} : ReturnsField(locals.results[i]) =>
                /\ Len(shotgun.update_calls) = 1
                /\ locals.results[i].v[1].s \in DOMAIN shotgun.update_calls[1].data
                /\ LastForField(i) =>
                    shotgun.update_calls[1].data[locals.results[i].v[1].s]
                        = locals.results[i].v[2]

\* An InvalidJiraValue for the second of three changes, with a field
\* returned for the change before it and for the change after it, both in
\* the data of the update.
C10_Witness ==
    /\ ProcessCompleted
    /\ Len(locals.results) = 3
    /\ InvalidValue(locals.results[2])
    /\ ReturnsField(locals.results[1])
    /\ ReturnsField(locals.results[3])
    /\ locals.results[1].v[1] # locals.results[3].v[1]
    /\ Len(shotgun.update_calls) = 1
    /\ {locals.results[1].v[1].s, locals.results[3].v[1].s}
            \subseteq DOMAIN shotgun.update_calls[1].data

\* The Entity the Issue of the event is linked to, when the Issue holds a
\* Shotgun id made of digits.
EventEntityKey ==
    <<args.event.d["issue"].d["fields"].d[jira_shotgun_type_field].s,
      ToInt(args.event.d["issue"].d["fields"].d[jira_shotgun_id_field].s)>>

EventEntityNotFound ==
    /\ args.event.d["issue"].d["fields"].d[jira_shotgun_id_field].k = "str"
    /\ args.event.d["issue"].d["fields"].d[jira_shotgun_id_field].s \in IntStrings
    /\ EventEntityKey \notin DOMAIN shotgun.entities

\* C11: process_jira_event makes at most one update call for an event:
\* exactly one, with the data gathered, when the Entity is found and some
\* data was gathered from the changes; none, False being returned without
\* any exception, when the Entity is not found in Shotgun; none when no data
\* was gathered.
C11_AtMostOneUpdate ==
    /\ Len(shotgun.update_calls) <= 1
    /\ (pc = "done" /\ EventEntityNotFound) =>
            ret = Return(PyBool(FALSE)) /\ shotgun.update_calls = <<>>
    /\ ProcessCompleted =>
        /\ DOMAIN locals.shotgun_data # {} =>
                /\ Len(shotgun.update_calls) = 1
                /\ shotgun.update_calls[1].data = locals.shotgun_data
                /\ ret = Return(PyBool(TRUE))
        /\ DOMAIN locals.shotgun_data = {} =>
                shotgun.update_calls = <<>> /\ ret = Return(PyBool(FALSE))

C11_Witness ==
    ProcessCompleted /\ DOMAIN locals.shotgun_data # {}
        /\ Len(locals.results) = 2 /\ Len(shotgun.update_calls) = 1

C11_WitnessEmpty ==
    ProcessCompleted /\ DOMAIN locals.shotgun_data = {}
        /\ Len(locals.results) = 2 /\ shotgun.update_calls = <<>>

C11_WitnessNotFound ==
    pc = "done" /\ EventEntityNotFound /\ ret = Return(PyBool(FALSE))

\* The last change treated and the Shotgun field it is for.
LastChange == event_changes(args.event)[Len(locals.results)]

LastField == get_shotgun_entity_field_for_issue_field(change_field_id(LastChange))

\* The last change treated can't be translated: Shotgun has no schema for
\* its field; it is a change of assignee and the field is not an entity
\* field; the data type of its field is not supported; its field is a
\* multi entity field and Shotgun does not have the Task any more.
HardFailureCause ==
    /\ LastField # PyNone
    /\ \/ LastField.s \notin DOMAIN shotgun.schema
       \/ /\ LastField.s \in DOMAIN shotgun.schema
          /\ Truthy(shotgun.schema[LastField.s].d["editable"].d["value"])
          /\ \/ /\ change_field_id(LastChange) = PyStr("assignee")
                /\ shotgun.schema[LastField.s].d["data_type"].d["value"]
                        \notin {PyStr("multi_entity"), PyStr("entity")}
             \/ /\ change_field_id(LastChange) # PyStr("assignee")
                /\ shotgun.schema[LastField.s].d["data_type"].d["value"] = PyStr("url")
             \/ /\ change_field_id(LastChange) # PyStr("assignee")
                /\ shotgun.schema[LastField.s].d["data_type"].d["value"]
                        = PyStr("multi_entity")
                /\ <<"Task", 42>> \notin DOMAIN shotgun.entities

HardFailure(result) == result.k = "raise" /\ result.exc # "InvalidJiraValue"

\* C12: the loop on the changes catches InvalidJiraValue only: when a change
\* can't be translated for another reason (no schema for the Shotgun field,
\* an assignee field which is not an entity field, a data type which is not
\* supported, the Entity not in Shotgun any more), the ValueError or
\* RuntimeError leaves process_jira_event and no update call is made, even
\* when changes were translated before.
C12_HardFailurePropagates ==
    (pc = "done" /\ locals # PyNone) =>
        /\ (Len(locals.results) > 0 /\ HardFailureCause) =>
                /\ ret \in {Raise("ValueError"), Raise("RuntimeError")}
                /\ locals.results[Len(locals.results)] = ret
                /\ shotgun.update_calls = <<>>
        /\ \A i \in DOMAIN locals.results : HardFailure(locals.results[i]) =>
                /\ i = Len(locals.results)
                /\ ret = locals.results[i]
                /\ shotgun.update_calls = <<>>

C12_Witness ==
    pc = "done" /\ locals # PyNone /\ Len(locals.results) = 2
        /\ ReturnsField(locals.results[1]) /\ HardFailureCause
        /\ ret = Raise("RuntimeError") /\ shotgun.update_calls = <<>>

\* The event was delivered again and processed again.
Redelivered == pc = "done" /\ Len(shotgun.deliveries) = MaxRedeliveries

\* C17: when an event is processed again, with the Task as the first
\* processing left it in Shotgun, the fields of the Task are what they were
\* after the first processing, no list holding an entry twice.
C17_RedeliveryIsSafe ==
    Redelivered =>
        /\ shotgun.entities[<<"Task", 42>>] = shotgun.deliveries[1].task
        /\ \A f \in {"tags", "task_assignees"} :
                shotgun.entities[<<"Task", 42>>][f].k = "list" =>
                    NoDuplicates(shotgun.entities[<<"Task", 42>>][f])

====
